---- MODULE Spec2Model ----
(***************************************************************************)
(* A model of django_tastypie_digester/core.py: the lazy resource proxies  *)
(* (ResourceProxy, ResourceProxyList), the paginated ResourceList, the     *)
(* Resource mutations and the EndpointProxy getters, against an HTTP       *)
(* server that is the environment.                                         *)
(*                                                                         *)
(* Python strings are kept split on "/": the string "/api/v1/" is the      *)
(* sequence <<"", "api", "v1", "">>, the id "7" is <<"7">>.  Concatenation *)
(* (StrCat) and str.split("/") are then exact on this representation.      *)
(* Python values are records tagged by their type in field t, so that the  *)
(* string "1" and the integer 1 are different values, as in Python.        *)
(*                                                                         *)
(* The semantics are those of Python 2, the interpreter the module needs:  *)
(* it calls dict.iteritems, dict.itervalues and urllib.urlencode, which    *)
(* Python 3 does not have.  "/" on two integers is floor division.         *)
(***************************************************************************)
EXTENDS Integers, Sequences, FiniteSets, TLC

VARIABLES
    reqs,      \* the HTTP requests issued so far, in order, with the status answered
    result,    \* what the last call returned or raised
    ref,       \* the ResourceProxy instances
    rlist,     \* the ResourceProxyList instance
    rgen,      \* the generators made by ResourceProxyList.__iter__
    paged,     \* the ResourceList instance
    pgen,      \* the generators made by ResourceList.__iter__
    rows,      \* the server's listing: the ids of the rows that match the filters
    res,       \* the Resource instances
    api,       \* the Api instance
    thr        \* the threads inside ResourceProxy._fetch

vars == <<reqs, result, ref, rlist, rgen, paged, pgen, rows, res, api, thr>>

(***************************** bounds **************************************)
MaxReqs == 4        \* requests in the log
MaxRows == 5        \* rows of the server's listing
MaxAdds == 1        \* rows added to the listing after the first response
PageLimit == 2      \* rows the server puts on one page of a listing
MaxInt == 45        \* largest integer that int() and str() are asked to convert
NumRefs == 2        \* ResourceProxy instances
MaxRefReqs == 3     \* requests of the ResourceProxy instances
MaxManyIds == 2     \* ids given to one get_many call
MaxResReqs == 3     \* requests of the Resource instances
MaxRes == 3         \* Resource instances
MaxIds == 41        \* ids declared by the ResourceProxyList
NumListGens == 2    \* iterations of the ResourceProxyList
RecursionLimit == 4 \* depth of the call stack at which the interpreter gives up
NumThreads == 2     \* threads that resolve the same ResourceProxy
MaxApiRes == 1      \* Resources kept from the calls of one client
MaxApiReqs == 3     \* requests of one client, its construction included
NumInst == 2        \* lazy objects held at once
MaxItems == 2       \* items of a filter value that is a list

(***************************** Python values *******************************)
PyNone == [t |-> "none"]
PyStr(s) == [t |-> "str", s |-> s]
PyInt(n) == [t |-> "int", n |-> n]
PyList(l) == [t |-> "list", l |-> l]

\* bool(v): None, 0, "" and [] are false; instances of classes that define
\* neither __nonzero__ nor __len__ (Resource) are true.
Truthy(v) ==
    CASE v.t = "none" -> FALSE
      [] v.t = "int" -> v.n # 0
      [] v.t = "str" -> v.s # <<"">>
      [] v.t = "list" -> v.l # <<>>
      [] OTHER -> TRUE

DigitStr == <<"0", "1", "2", "3", "4", "5", "6", "7", "8", "9">>

RECURSIVE IntToStr(_)
IntToStr(n) ==
    IF n < 10 THEN DigitStr[n + 1]
    ELSE IntToStr(n \div 10) \o DigitStr[(n % 10) + 1]

\* str(v) / '%s' % v
PyToStr(v) ==
    CASE v.t = "int" -> <<IntToStr(v.n)>>
      [] v.t = "str" -> v.s
      [] OTHER -> <<"None">>

\* int(v): the integer a decimal string spells, ValueError for any other string
IsDecimal(s) == Len(s) = 1 /\ \E n \in 0..MaxInt : IntToStr(n) = s[1]
PyToInt(v) ==
    CASE v.t = "int" -> [exc |-> "none", val |-> v]
      [] v.t = "str" /\ IsDecimal(v.s) ->
            [exc |-> "none",
             val |-> PyInt(CHOOSE n \in 0..MaxInt : IntToStr(n) = v.s[1])]
      [] OTHER -> [exc |-> "ValueError", val |-> PyNone]

\* a + b on strings split on "/"
StrCat(a, b) ==
    SubSeq(a, 1, Len(a) - 1) \o <<a[Len(a)] \o b[1]>> \o Tail(b)

Slash == <<"", "">>

(***************************** Parser **************************************)
\* Api('http://h/api/v1/'): parser.url
ServiceUrl == <<"http:", "", "h", "api", "v1", "">>
\* Parser._get_url_parts: ('http://h', '/api/v1/')
base_url == SubSeq(ServiceUrl, 1, 3)
base_path == <<"">> \o SubSeq(ServiceUrl, 4, Len(ServiceUrl))

\* url.split('/')[-3:-1]
get_resource_ident_Last2(url) ==
    SubSeq(url, IF Len(url) - 2 < 0 THEN 1 ELSE Len(url) - 1, Len(url))
get_resource_ident(url) ==
    LET n == Len(url)
        lo == IF n - 3 < 0 THEN 1 ELSE n - 2
    IN  SubSeq(url, lo, n - 1)

(***************************** Api *****************************************)
\* a filter value that is a tuple or list gives one parameter per item, any
\* other value one parameter
ItemParams_Joined(key, items) ==
    IF items = <<>> THEN <<>> ELSE <<[k |-> key, v |-> Head(items)]>>
RECURSIVE ItemParams(_, _)
ItemParams(key, items) ==
    IF items = <<>> THEN <<>>
    ELSE <<[k |-> key, v |-> Head(items)]>> \o ItemParams(key, Tail(items))

RECURSIVE QueryParams(_)
QueryParams(kwargs) ==
    IF kwargs = <<>> THEN <<>>
    ELSE LET kv == Head(kwargs)
             value == IF kv.v.t = "list" THEN kv.v.l ELSE <<kv.v>>
         IN  ItemParams(kv.k, value) \o QueryParams(Tail(kwargs))

\* urllib.urlencode(params), for values without "/"
RECURSIVE urlencode(_)
urlencode(params) ==
    IF params = <<>> THEN ""
    ELSE LET one == Head(params).k \o "=" \o PyToStr(Head(params).v)[1]
         IN  IF Len(params) = 1 THEN one
             ELSE one \o "&" \o urlencode(Tail(params))

\* Api.get_url with strip_trailing_slash off; kwargs is the sequence of the
\* filters [k, v]
get_url_Root(resource_name, resource_id, kwargs) == ServiceUrl
get_url(resource_name, resource_id, kwargs) ==
    LET u1 == IF resource_name # PyNone
              THEN StrCat(ServiceUrl, StrCat(PyToStr(resource_name), Slash))
              ELSE ServiceUrl
        u2 == IF resource_name # PyNone /\ resource_id # PyNone
              THEN StrCat(u1, StrCat(PyToStr(resource_id), Slash))
              ELSE u1
    IN  IF kwargs # <<>>
        THEN StrCat(u2, <<"?" \o urlencode(QueryParams(kwargs))>>)
        ELSE u2

\* the statuses a server answers with, and the bodies of its error answers
Statuses == {200, 202, 204, 404}
ErrBodies == {"dict_message", "dict_plain", "not_dict", "undecodable"}

\* Api.raise_error: data.get fails on a body that decodes to something that is
\* no dict, and only ValueError is caught
raise_error(body) ==
    IF body = "not_dict" THEN "AttributeError" ELSE "BadHttpStatus"

Request(method, url, status) ==
    [method |-> method, url |-> url, status |-> status]

\* a URL that requests can send: it names its scheme
HasScheme(url) == url[1] = "http:"

\* Api.get_by_absolute_url: one GET; resp = [status, body].  The url goes to
\* requests.get as it is, and requests refuses a URL without a scheme
\* (MissingSchema) before anything is sent.
get_by_absolute_url(url, resp) ==
    IF ~HasScheme(url)
    THEN [exc |-> "MissingSchema", val |-> PyNone, reqs |-> <<>>]
    ELSE IF resp.status # 200
    THEN [exc |-> raise_error(resp.body), val |-> PyNone,
          reqs |-> <<Request("GET", url, resp.status)>>]
    ELSE [exc |-> "none", val |-> resp.body,
          reqs |-> <<Request("GET", url, resp.status)>>]

\* Api.get_by_relative_url
get_by_relative_url(url, resp) ==
    get_by_absolute_url(StrCat(base_url, url), resp)

\* Api.get
api_get(resource_name, resource_id, kwargs, resp) ==
    get_by_absolute_url(get_url(resource_name, resource_id, kwargs), resp)

\* the body of the service root: each resource name with its list endpoint
\* and its schema
RootBody ==
    [n \in {"widget", "user"} |->
        [list_endpoint |-> StrCat(base_path, <<n, "">>),
         schema |-> StrCat(base_path, <<n, "schema", "">>)]]

\* Api.__init__: the attribute _endpoints is set only when load_endpoints is
\* on, from the body of one GET of the service URL
NewApi(load_endpoints, resp) ==
    LET made(r) ==
            IF r.exc # "none"
            THEN [exc |-> r.exc, val |-> PyNone, reqs |-> r.reqs]
            ELSE [exc |-> "none", val |-> [t |-> "Api", _endpoints |-> r.val],
                  reqs |-> r.reqs]
    IN  IF load_endpoints
        THEN made(api_get(PyNone, PyNone, <<>>, resp))
        ELSE [exc |-> "none", val |-> [t |-> "Api"], reqs |-> <<>>]

\* a client whose construction loaded the registry
LoadedApi == [t |-> "Api", _endpoints |-> RootBody]

\* list(filter(bool, endpoint_url.split('/')))[-1]
RECURSIVE LastSegment(_)
LastSegment(url) ==
    IF url[Len(url)] # "" THEN url[Len(url)]
    ELSE LastSegment(SubSeq(url, 1, Len(url) - 1))

\* EndpointProxy.__init__
NewEndpointProxy(endpoint_url, schema_url) ==
    [t |-> "EndpointProxy", _endpoint_url |-> endpoint_url,
     _schema_url |-> schema_url, resource_name |-> LastSegment(endpoint_url)]

\* Api.get_endpoint(name), entered at the given depth of the call stack.  An
\* instance that has no attribute _endpoints looks it up with __getattr__,
\* which calls get_endpoint('_endpoints'), which reads self._endpoints again:
\* the interpreter ends the recursion with RuntimeError at its limit.
RECURSIVE get_endpoint_at(_, _, _)
get_endpoint_at(a, name, depth) ==
    IF depth > RecursionLimit
    THEN [exc |-> "RuntimeError", val |-> PyNone]
    ELSE IF "_endpoints" \in DOMAIN a
    THEN IF name \in DOMAIN a._endpoints
         THEN [exc |-> "none",
               val |-> NewEndpointProxy(a._endpoints[name].list_endpoint,
                                        a._endpoints[name].schema)]
         ELSE [exc |-> "AttributeError", val |-> PyNone]
    ELSE get_endpoint_at(a, "_endpoints", depth + 1)

\* Api.get_endpoint
get_endpoint(a, name) == get_endpoint_at(a, name, 1)

(***************************** Resource ************************************)
NewResource(endpoint, data, id) ==
    [t |-> "Resource", endpoint |-> endpoint, _data |-> data, _id |-> id,
     _is_deleted |-> FALSE]

\* Resource.manufacture on an object whose fields are scalars: resource_uri is
\* removed and parsed, the other fields are kept
manufacture(endpoint, obj) ==
    LET ident == get_resource_ident(obj.resource_uri)
    IN  NewResource(endpoint, obj.fields, PyStr(<<ident[2]>>))

\* Resource.__getattr__: the field of _data, or AttributeError
HasAttr(r, attr) == attr \in DOMAIN r._data

\* Resource.manufacture_many
manufacture_many(endpoint, objects) ==
    [i \in 1..Len(objects) |-> manufacture(endpoint, objects[i])]

(***************************** the server **********************************)
\* An answer of the environment to one request: its status and, when it is
\* not the status of success, the kind of its body.
Answers(okStatus) ==
    {[status |-> okStatus, body |-> "ok"]}
        \cup [status : Statuses \ {okStatus}, body : ErrBodies]

\* the answers tried where several requests follow one another: success, and
\* one failure
FewAnswers(okStatus) ==
    {[status |-> okStatus, body |-> "ok"], [status |-> 404, body |-> "dict_message"]}

\* the response: the server's body for the request when the status is 200
Response(ans, okBody) ==
    [status |-> ans.status, body |-> IF ans.status = 200 THEN okBody ELSE ans.body]

\* the object the server holds for (name, id): its id field is the row's
\* integer key when the id is a number
ServerObject(name, id) ==
    [resource_uri |-> StrCat(base_path, <<name, id, "">>),
     fields |-> ("id" :> IF IsDecimal(<<id>>) THEN PyToInt(PyStr(<<id>>)).val
                         ELSE PyStr(<<id>>))]

\* the cursor of the page at offset o, a server-relative URL
NextUrl(name, o) == StrCat(base_path, <<name, "?offset=" \o IntToStr(o)>>)

\* the offset an absolute page URL asks for; 0 for the first page
OffsetOf(name, url) ==
    IF \E o \in 1..MaxRows + MaxAdds : url = StrCat(base_url, NextUrl(name, o))
    THEN CHOOSE o \in 1..MaxRows + MaxAdds : url = StrCat(base_url, NextUrl(name, o))
    ELSE 0

Min(a, b) == IF a < b THEN a ELSE b

\* the listing page at the offset of url, of the listing rws
ListBody(name, url, rws) ==
    LET page(o, n) ==
            [meta |-> [total_count |-> PyInt(Len(rws)),
                       next |-> IF o + PageLimit < Len(rws)
                                THEN PyStr(NextUrl(name, o + PageLimit))
                                ELSE PyNone],
             objects |-> [i \in 1..n |-> ServerObject(name, IntToStr(rws[o + i]))]]
        at(o) == page(o, IF Len(rws) > o THEN Min(PageLimit, Len(rws) - o) ELSE 0)
    IN  at(OffsetOf(name, url))

(***************************** ResourceList ********************************)
\* ResourceList.__init__
NewResourceList(endpoint, meta, filters) ==
    [endpoint |-> endpoint, _cache |-> <<>>, _is_cached |-> FALSE,
     _meta |-> meta, _filters |-> filters]

\* ResourceList.count
count_Cached(p) == Len(p._cache)
count(p) == PyToInt(p._meta.total_count).val.n

\* a generator made by ResourceList.__iter__ that has not run yet
\* (mode: what it iterates, once it runs; out: what it has yielded; began: the
\* number of requests logged when it first ran; late: whether a fetching
\* generator had already run to its end by then)
NewGen == [st |-> "new", mode |-> "none", pending |-> <<>>, next |-> PyNone,
           idx |-> 0, out |-> <<>>, began |-> -1, late |-> FALSE]

\* self._cache += resources
CacheAppend_Front(cache, resources) == resources \o cache
CacheAppend(cache, resources) == cache \o resources

\* _fetch sets the flag before its first request
SetIsCached_Never(p) == p
SetIsCached(p) == [p EXCEPT !._is_cached = TRUE]

\* the part of _fetch and _iterate_pages that gets one page: the request, then
\* self._cache += resources
LoadPage(p, g, url, ans, rws) ==
    LET stored(r, resources) ==
            [p |-> [p EXCEPT !._cache = CacheAppend(@, resources)],
             g |-> [g EXCEPT !.st = "fetch", !.pending = resources,
                             !.next = r.val.meta.next],
             reqs |-> r.reqs, ev |-> [k |-> "loaded"]]
        got(r) ==
            IF r.exc # "none"
            THEN [p |-> p, g |-> [g EXCEPT !.st = "raised"], reqs |-> r.reqs,
                  ev |-> [k |-> "raise", exc |-> r.exc]]
            ELSE stored(r, manufacture_many(p.endpoint, r.val.objects))
    IN  got(get_by_absolute_url(url, Response(ans, ListBody(p.endpoint, url, rws))))

\* One next() on a generator of ResourceList.__iter__: the generator runs to
\* its next yield, to its end or to an exception.  ans answers the request of
\* this step.
RECURSIVE PagedAdvance(_, _, _, _)
PagedAdvance(p, g, ans, rws) ==
    LET loaded(l) ==
            IF l.ev.k = "raise" THEN l
            ELSE LET rest == PagedAdvance(l.p, l.g, ans, rws)
                 IN  [rest EXCEPT !.reqs = l.reqs \o @]
    IN  CASE g.st = "new" /\ p._is_cached ->
                PagedAdvance(p, [g EXCEPT !.st = "replay", !.mode = "replay"], ans, rws)
          [] g.st = "new" /\ ~p._is_cached ->
                loaded(LoadPage(SetIsCached(p), [g EXCEPT !.mode = "fetch"],
                                get_url(PyStr(<<p.endpoint>>), PyNone, p._filters),
                                ans, rws))
          [] g.st = "fetch" /\ g.pending # <<>> ->
                [p |-> p,
                 g |-> [g EXCEPT !.pending = Tail(@), !.out = Append(@, Head(g.pending))],
                 reqs |-> <<>>, ev |-> [k |-> "yield", item |-> Head(g.pending)]]
          [] g.st = "fetch" /\ g.pending = <<>> /\ ~Truthy(g.next) ->
                [p |-> p, g |-> [g EXCEPT !.st = "done"], reqs |-> <<>>,
                 ev |-> [k |-> "stop"]]
          [] g.st = "fetch" /\ g.pending = <<>> /\ Truthy(g.next) ->
                loaded(LoadPage(p, g, StrCat(base_url, g.next.s), ans, rws))
          [] g.st = "replay" /\ g.idx < Len(p._cache) ->
                [p |-> p,
                 g |-> [g EXCEPT !.idx = @ + 1, !.out = Append(@, p._cache[g.idx + 1])],
                 reqs |-> <<>>, ev |-> [k |-> "yield", item |-> p._cache[g.idx + 1]]]
          [] g.st = "replay" /\ g.idx >= Len(p._cache) ->
                [p |-> p, g |-> [g EXCEPT !.st = "done"], reqs |-> <<>>,
                 ev |-> [k |-> "stop"]]
          [] OTHER ->
                [p |-> p, g |-> g, reqs |-> <<>>, ev |-> [k |-> "stop"]]

\* [item for item in list_proxy]: next() until the generator ends or raises;
\* answers[i] answers the i-th request
RECURSIVE IterateAll(_, _, _, _)
IterateAll(p, g, answers, rws) ==
    LET step(r) ==
            IF r.ev.k = "yield"
            THEN LET rest == IterateAll(r.p, r.g,
                                        IF r.reqs # <<>> /\ Len(answers) > 1
                                        THEN Tail(answers) ELSE answers,
                                        rws)
                 IN  [rest EXCEPT !.reqs = r.reqs \o @]
            ELSE [exc |-> IF r.ev.k = "raise" THEN r.ev.exc ELSE "none",
                  val |-> r.g.out, reqs |-> r.reqs, p |-> r.p]
    IN  step(PagedAdvance(p, g, Head(answers), rws))

(***************************** EndpointProxy *******************************)
\* EndpointProxy.filter: the first listing request, whose meta seeds the list
EndpointFilter(endpoint, kwargs, ans, rws) ==
    LET seeded(r) ==
            IF r.exc # "none" THEN r
            ELSE [exc |-> "none", reqs |-> r.reqs,
                  val |-> NewResourceList(endpoint, r.val.meta, kwargs)]
        asked(url) ==
            seeded(get_by_absolute_url(url, Response(ans, ListBody(endpoint, url, rws))))
    IN  asked(get_url(PyStr(<<endpoint>>), PyNone, kwargs))

\* the test "if id:" of EndpointProxy.get
IdGiven(id) == Truthy(id)

\* the test "if list_proxy.count() != 1" of EndpointProxy.get
NotExactlyOne_TooMany(n) == n > 1
NotExactlyOne(n) == n # 1

\* EndpointProxy.get(id, **kwargs); answers[i] answers the i-th request
EndpointGet(endpoint, id, kwargs, answers, rws) ==
    LET fetched(r) ==
            IF r.exc # "none" THEN r
            ELSE [exc |-> "none", reqs |-> r.reqs,
                  val |-> manufacture(endpoint, r.val)]
        first(f, all) ==
            IF all.exc # "none"
            THEN [exc |-> all.exc, val |-> PyNone, reqs |-> f.reqs \o all.reqs]
            ELSE IF all.val = <<>>
            THEN [exc |-> "IndexError", val |-> PyNone, reqs |-> f.reqs \o all.reqs]
            ELSE [exc |-> "none", val |-> all.val[1], reqs |-> f.reqs \o all.reqs]
        filtered(f) ==
            IF f.exc # "none" THEN f
            ELSE IF NotExactlyOne(count(f.val))
            THEN [exc |-> "TooManyResources", val |-> PyNone, reqs |-> f.reqs]
            ELSE first(f, IterateAll(f.val, NewGen, Tail(answers), rws))
    IN  IF IdGiven(id)
        THEN fetched(api_get(PyStr(<<endpoint>>), id, kwargs,
                             Response(answers[1],
                                      ServerObject(endpoint, PyToStr(id)[1]))))
        ELSE IF kwargs = <<>>
        THEN [exc |-> "ResourceIdMissing", val |-> PyNone, reqs |-> <<>>]
        ELSE filtered(EndpointFilter(endpoint, kwargs, answers[1], rws))

\* the test of add on the status of the answer to POST
AddFailed(status) == status # 201

\* EndpointProxy.add(**kwargs): a1 answers the POST, location is the Location
\* header of a 201 answer, a2 answers the GET of it
EndpointAdd(endpoint, a1, location, a2) ==
    LET post == <<Request("POST", get_url(PyStr(<<endpoint>>), PyNone, <<>>),
                          a1.status)>>
        made(r) ==
            IF r.exc # "none"
            THEN [exc |-> r.exc, val |-> PyNone, reqs |-> post \o r.reqs]
            ELSE [exc |-> "none", val |-> manufacture(endpoint, r.val),
                  reqs |-> post \o r.reqs]
    IN  IF AddFailed(a1.status)
        THEN [exc |-> raise_error(a1.body), val |-> PyNone, reqs |-> post]
        ELSE made(get_by_absolute_url(
                    location,
                    Response(a2, ServerObject(endpoint,
                                              get_resource_ident(location)[2]))))

\* a Python dict, as the sequence of its items [k, v]
DictKeys(d) == {d[i].k : i \in DOMAIN d}
DictHas(d, key) == key \in DictKeys(d)
DictGet(d, key) == d[CHOOSE i \in DOMAIN d : d[i].k = key].v
DictPut(d, key, val) ==
    IF DictHas(d, key)
    THEN [i \in DOMAIN d |-> IF d[i].k = key THEN [k |-> key, v |-> val] ELSE d[i]]
    ELSE Append(d, [k |-> key, v |-> val])

\* ';'.join(map(str, ids))
RECURSIVE JoinIds(_)
JoinIds(ids) ==
    IF ids = <<>> THEN ""
    ELSE IF Len(ids) = 1 THEN PyToStr(ids[1])[1]
    ELSE PyToStr(ids[1])[1] \o ";" \o JoinIds(Tail(ids))

\* the server's answer to set/id1;id2;.../: the objects it holds among the ids
\* and, when some are missing, the missing ids as strings
RECURSIVE SelectIds(_, _, _)
SelectIds(ids, missing, want) ==
    IF ids = <<>> THEN <<>>
    ELSE IF (PyToStr(Head(ids)) \in missing) = want
    THEN <<PyToStr(Head(ids))>> \o SelectIds(Tail(ids), missing, want)
    ELSE SelectIds(Tail(ids), missing, want)

SetBody(name, ids, missing) ==
    LET found == SelectIds(ids, missing, FALSE)
        lost == SelectIds(ids, missing, TRUE)
    IN  [objects |-> [i \in 1..Len(found) |-> ServerObject(name, found[i][1])],
         not_found |-> IF lost = <<>> THEN PyNone
                       ELSE PyList([i \in 1..Len(lost) |-> PyStr(lost[i])])]

\* the key get_many files a found resource under: r.id, the field "id" of its
\* data
ResourceKey(r) == r._data["id"]

\* dict([(r.id, r) for r in resources])
RECURSIVE DictOfResources(_)
DictOfResources(resources) ==
    IF resources = <<>> THEN <<>>
    ELSE LET n == Len(resources)
         IN  DictPut(DictOfResources(SubSeq(resources, 1, n - 1)),
                     ResourceKey(resources[n]), resources[n])

\* for id in data['not_found']: resources[int(id)] = None
RECURSIVE AddNotFound(_, _)
AddNotFound(d, lost) ==
    IF lost = <<>> THEN [exc |-> "none", val |-> d]
    ELSE LET key == PyToInt(Head(lost))
         IN  IF key.exc # "none" THEN [exc |-> key.exc, val |-> d]
             ELSE AddNotFound(DictPut(d, key.val, PyNone), Tail(lost))

\* EndpointProxy.get_many(*ids); missing is the set of the ids the server does
\* not hold
GetMany(endpoint, ids, ans, missing) ==
    LET filed(r, nf) ==
            [exc |-> nf.exc, val |-> IF nf.exc = "none" THEN nf.val ELSE <<>>,
             reqs |-> r.reqs]
        keyed(r, resources) ==
            IF \E i \in DOMAIN resources : ~HasAttr(resources[i], "id")
            THEN [exc |-> "AttributeError", val |-> <<>>, reqs |-> r.reqs]
            ELSE filed(r, IF r.val.not_found # PyNone
                          THEN AddNotFound(DictOfResources(resources),
                                           r.val.not_found.l)
                          ELSE [exc |-> "none", val |-> DictOfResources(resources)])
        got(r) ==
            IF r.exc # "none" THEN [exc |-> r.exc, val |-> <<>>, reqs |-> r.reqs]
            ELSE keyed(r, manufacture_many(endpoint, r.val.objects))
    IN  got(api_get(PyStr(<<endpoint>>),
                    PyStr(StrCat(<<"set", "">>, <<JoinIds(ids)>>)), <<>>,
                    Response(ans, SetBody(endpoint, ids, missing))))

(***************************** the request log *****************************)
\* who issued a request: the kind of the instance and its number
Who(kind, i) == [k |-> kind, i |-> i]

Logged(rs, who) ==
    [i \in 1..Len(rs) |->
        [method |-> rs[i].method, url |-> rs[i].url, status |-> rs[i].status,
         who |-> who]]

RequestsOf(who) == {i \in DOMAIN reqs : reqs[i].who = who}

Idle == [t |-> "none"]

(***************************** ResourceProxy *******************************)
RefIds == {"1", "2"}
Refs == 1..NumRefs

\* ResourceProxy.__init__
NewResourceProxy(endpoint, id) ==
    [_endpoint |-> endpoint, _id |-> id, _resource |-> PyNone]

\* the test "if not self._resource" of ResourceProxy._fetch
RefNeedsFetch_Always(x) == TRUE
RefNeedsFetch(x) == ~Truthy(x._resource)

\* ResourceProxy._fetch, were the outcome of a failed fetch kept in the slot
RefFetch_KeepFailure(x, ans) ==
    LET kept(g) ==
            [x |-> IF g.exc = "none" THEN [x EXCEPT !._resource = g.val]
                   ELSE [x EXCEPT !._resource = PyStr(<<g.exc>>)],
             exc |-> g.exc, val |-> g.val, reqs |-> g.reqs]
    IN  IF RefNeedsFetch(x)
        THEN kept(EndpointGet(x._endpoint, x._id, <<>>, <<ans>>, <<>>))
        ELSE [x |-> x, exc |-> "none", val |-> x._resource, reqs |-> <<>>]

\* ResourceProxy._fetch
RefFetch(x, ans) ==
    LET kept(g) ==
            [x |-> IF g.exc = "none" THEN [x EXCEPT !._resource = g.val] ELSE x,
             exc |-> g.exc, val |-> g.val, reqs |-> g.reqs]
    IN  IF RefNeedsFetch(x)
        THEN kept(EndpointGet(x._endpoint, x._id, <<>>, <<ans>>, <<>>))
        ELSE [x |-> x, exc |-> "none", val |-> x._resource, reqs |-> <<>>]

InitRef ==
    /\ reqs = <<>>
    /\ result = [op |-> "init"]
    /\ api = LoadedApi
    /\ thr = <<>>
    /\ ref \in [Refs -> {NewResourceProxy("widget", PyStr(<<i>>)) : i \in RefIds}]
    /\ rlist = Idle
    /\ rgen = <<>>
    /\ paged = Idle
    /\ pgen = <<>>
    /\ rows = <<>>
    /\ res = <<>>

\* ResourceProxy.__getattr__ (a field access) or a direct _fetch
RefAccess(r) ==
    \E ans \in FewAnswers(200) :
        \E f \in {RefFetch(ref[r], ans)} :
            /\ Len(reqs) < MaxRefReqs
            /\ ref' = [ref EXCEPT ![r] = f.x]
            /\ reqs' = reqs \o Logged(f.reqs, Who("ref", r))
            /\ result' = [op |-> "ref", who |-> r, exc |-> f.exc, val |-> f.val,
                          fetched |-> f.reqs # <<>>]
            /\ UNCHANGED <<rlist, rgen, paged, pgen, rows, res, api, thr>>

NextRef == \E r \in Refs : RefAccess(r)

SpecRef == InitRef /\ [][NextRef]_vars

\* C1: a ResourceProxy issues no request after one of its requests succeeded
\* (so at most one fetch when the fetch succeeds), and every call that
\* succeeds returns the Resource held in its cache slot.
C1_RefFetchOnce ==
    /\ \A r \in Refs : \A i, j \in RequestsOf(Who("ref", r)) :
            (i < j) => reqs[i].status # 200
    /\ (result.op = "ref" /\ result.exc = "none") =>
            /\ result.val = ref[result.who]._resource
            /\ Cardinality({i \in RequestsOf(Who("ref", result.who)) :
                                reqs[i].status = 200}) = 1

\* a call served from the cache slot after the fetch
C1_Witness ==
    /\ result.op = "ref" /\ result.exc = "none" /\ ~result.fetched
    /\ Cardinality(RequestsOf(Who("ref", result.who))) = 1

(***************************** ResourceList, as a state machine ************)
NumGens == 2
Gens == 1..NumGens

FilterChoices == {<<[k |-> "name", v |-> PyStr(<<"x">>)]>>}

\* the listing 1..n
RECURSIVE UpTo(_)
UpTo(n) == IF n = 0 THEN <<>> ELSE Append(UpTo(n - 1), n)

InitPaged ==
    /\ reqs = <<>>
    /\ result = [op |-> "init"]
    /\ api = LoadedApi
    /\ thr = <<>>
    /\ ref = <<>>
    /\ rlist = Idle
    /\ rgen = <<>>
    /\ paged = Idle
    /\ pgen = [i \in Gens |-> NewGen]
    /\ rows \in {UpTo(n) : n \in 0..MaxRows}
    /\ res = <<>>

\* api.widget.filter(**kwargs) / api.widget.all()
PagedFilter ==
    \E kwargs \in FilterChoices, ans \in FewAnswers(200) :
        \E f \in {EndpointFilter("widget", kwargs, ans, rows)} :
            /\ paged = Idle
            /\ Len(reqs) < MaxReqs
            /\ paged' = IF f.exc = "none" THEN f.val ELSE paged
            /\ reqs' = reqs \o Logged(f.reqs, Who("filter", 0))
            /\ result' = [op |-> "filter", exc |-> f.exc]
            /\ UNCHANGED <<ref, rlist, rgen, pgen, rows, res, api, thr>>

\* one next() on the i-th generator of iter(paged); a generator that is never
\* advanced again is an abandoned iteration
PagedNext(i) ==
    \E ans \in FewAnswers(200) :
        LET g == pgen[i]
            r == PagedAdvance(paged, g, ans, rows)
            g2 == IF g.st = "new"
                  THEN [r.g EXCEPT !.began = Len(reqs),
                                   !.late = \E j \in Gens : /\ pgen[j].mode = "fetch"
                                                            /\ pgen[j].st = "done"]
                  ELSE r.g
        IN  /\ paged # Idle
            /\ g.st \notin {"done", "raised"}
            /\ i > 1 => pgen[i - 1].st # "new"
            /\ Len(reqs) + Len(r.reqs) <= MaxReqs
            /\ paged' = r.p
            /\ pgen' = [pgen EXCEPT ![i] = g2]
            /\ reqs' = reqs \o Logged(r.reqs, Who("pgen", i))
            /\ result' = [op |-> "next", who |-> i, ev |-> r.ev]
            /\ UNCHANGED <<ref, rlist, rgen, rows, res, api, thr>>

\* the environment: a row that matches the filters is added on the server
ServerAdd ==
    /\ paged # Idle
    /\ Len(rows) - count(paged) < MaxAdds
    /\ rows' = Append(rows, Len(rows) + 1)
    /\ UNCHANGED <<reqs, result, ref, rlist, rgen, paged, pgen, res, api, thr>>

NextPaged == PagedFilter \/ (\E i \in Gens : PagedNext(i)) \/ ServerAdd

SpecPaged == InitPaged /\ [][NextPaged]_vars

\* the resources of the whole listing, in page order
FullListing == manufacture_many("widget", [i \in 1..Len(rows) |->
                                    ServerObject("widget", IntToStr(rows[i]))])

\* the listing is the one the first response counted
StaticListing == paged # Idle /\ count(paged) = Len(rows)

\* a page request of an iteration was answered with another status than 200
\* among the first n requests
PageFailedBy(n) ==
    \E j \in 1..n : reqs[j].who.k = "pgen" /\ reqs[j].status # 200

\* C3: with a static listing, an iteration that fetched and ran to its end has
\* yielded every page's objects in page order (total_count items), and an
\* iteration begun after that issues no request and yields the same sequence.
C3_PagedIterate ==
    \A i \in Gens :
        (StaticListing /\ pgen[i].st = "done") =>
            /\ pgen[i].mode = "fetch" =>
                    /\ pgen[i].out = FullListing
                    /\ Len(pgen[i].out) = count(paged)
            /\ pgen[i].late =>
                    /\ RequestsOf(Who("pgen", i)) = {}
                    /\ pgen[i].out = FullListing

\* a second iteration of a listing of three pages, run to its end after the
\* first one
C3_Witness ==
    /\ StaticListing /\ Len(rows) > 2 * PageLimit
    /\ pgen[1].st = "done" /\ pgen[1].mode = "fetch"
    /\ pgen[2].st = "done" /\ pgen[2].late

\* C5 as stated: the cache never holds more resources than the total_count
\* of the initial meta.
C5_CacheWithinTotal ==
    paged # Idle => Len(paged._cache) <= count(paged)

\* C5 amended: the cache holds at most total_count resources as long as the
\* server's listing is the one the first response counted.
C5_CacheWithinTotalStatic ==
    StaticListing => Len(paged._cache) <= count(paged)

\* the whole listing is cached while a second iteration is under way
C5_Witness ==
    /\ StaticListing /\ count(paged) > PageLimit
    /\ Len(paged._cache) = count(paged)
    /\ pgen[2].st = "replay"

\* C6 as stated: once a page request of an iteration has failed, an iteration
\* begun later that ends normally has yielded the whole listing.
C6_NoPartialListing ==
    \A i \in Gens :
        (StaticListing /\ pgen[i].st = "done" /\ PageFailedBy(pgen[i].began)) =>
            pgen[i].out = FullListing

(***************************** EndpointProxy, call by call *****************)
\* the ids a caller passes to get: none, integers, strings
GetIdChoices == {PyNone, PyInt(0), PyInt(1), PyStr(<<"">>), PyStr(<<"1">>)}
KwargsChoices == {<<>>, <<[k |-> "name", v |-> PyStr(<<"x">>)]>>}
\* the ids a caller passes to get_many
ManyIdPool == {PyStr(<<"1">>), PyStr(<<"2">>), PyStr(<<"x">>), PyInt(3)}
ManyIdChoices == UNION {[1..n -> ManyIdPool] : n \in 1..MaxManyIds}

InitEndpoint ==
    /\ reqs = <<>>
    /\ result = [op |-> "init"]
    /\ api = LoadedApi
    /\ thr = <<>>
    /\ ref = <<>>
    /\ rlist = Idle
    /\ rgen = <<>>
    /\ paged = Idle
    /\ pgen = <<>>
    /\ rows \in {UpTo(n) : n \in 0..MaxRows}
    /\ res = <<>>

\* api.widget.get(id, **kwargs) on a fresh client
EpGet ==
    \E id \in GetIdChoices, kwargs \in KwargsChoices,
       a1 \in Answers(200), a2 \in Answers(200) :
        \E g \in {EndpointGet("widget", id, kwargs, <<a1, a2>>, rows)} :
            /\ result.op = "init"
            /\ reqs' = reqs \o Logged(g.reqs, Who("endpoint", 0))
            /\ result' = [op |-> "get", id |-> id, kwargs |-> kwargs,
                          exc |-> g.exc, val |-> g.val]
            /\ UNCHANGED <<ref, rlist, rgen, paged, pgen, rows, res, api, thr>>

\* api.widget.get_many(*ids) on a fresh client
EpGetMany ==
    \E ids \in ManyIdChoices, ans \in Answers(200) :
        \E missing \in SUBSET {PyToStr(ids[i]) : i \in DOMAIN ids} :
            \E g \in {GetMany("widget", ids, ans, missing)} :
                /\ result.op = "init"
                /\ reqs' = reqs \o Logged(g.reqs, Who("endpoint", 0))
                /\ result' = [op |-> "get_many", ids |-> ids, missing |-> missing,
                              exc |-> g.exc, val |-> g.val]
                /\ UNCHANGED <<ref, rlist, rgen, paged, pgen, rows, res, api, thr>>

NextEndpoint == EpGet \/ EpGetMany

SpecEndpoint == InitEndpoint /\ [][NextEndpoint]_vars

AllOk == \A i \in DOMAIN reqs : reqs[i].status = 200

\* C4 as stated: get_many returns a map whose keys are exactly the ids that
\* were passed in, each found id mapped to its Resource and each id the server
\* listed in not_found mapped to None.
C4_GetManyKeys ==
    (result.op = "get_many" /\ AllOk) =>
        /\ result.exc = "none"
        /\ DictKeys(result.val) = {result.ids[i] : i \in DOMAIN result.ids}
        /\ \A i \in DOMAIN result.ids :
              DictHas(result.val, result.ids[i]) =>
                IF PyToStr(result.ids[i]) \in result.missing
                THEN DictGet(result.val, result.ids[i]) = PyNone
                ELSE /\ DictGet(result.val, result.ids[i]).t = "Resource"
                     /\ DictGet(result.val, result.ids[i])._id
                            = PyStr(PyToStr(result.ids[i]))

\* C9: get with filters and no id returns the single row's Resource when the
\* listing counts exactly one row (and the request of the iteration succeeds),
\* and raises TooManyResources when it counts none or several.
C9_GetByFilters ==
    (result.op = "get" /\ result.id = PyNone /\ result.kwargs # <<>>
        /\ Len(reqs) >= 1 /\ reqs[1].status = 200) =>
        IF Len(rows) = 1
        THEN /\ Len(reqs) = 2
             /\ AllOk => result.exc = "none" /\ result.val = FullListing[1]
             /\ result.exc \notin {"TooManyResources", "ResourceIdMissing", "IndexError"}
        ELSE result.exc = "TooManyResources" /\ Len(reqs) = 1

\* the one match is returned
C9_Witness ==
    /\ result.op = "get" /\ result.id = PyNone /\ result.kwargs # <<>>
    /\ Len(rows) = 1 /\ result.exc = "none" /\ result.val._id = PyStr(<<"1">>)

\* C10 as stated: get without id and filters raises ResourceIdMissing and
\* issues no request; get with an id issues the fetch of that id and does not
\* raise ResourceIdMissing.
C10_GetById ==
    result.op = "get" =>
        /\ (result.id = PyNone /\ result.kwargs = <<>>) =>
                result.exc = "ResourceIdMissing" /\ reqs = <<>>
        /\ result.id # PyNone =>
                /\ result.exc # "ResourceIdMissing"
                /\ Len(reqs) = 1
                /\ reqs[1].url = get_url(PyStr(<<"widget">>), result.id, result.kwargs)

(***************************** Resource, as a state machine ****************)
\* the answers to a PATCH or DELETE: success, and each other status
MutationAnswers(okStatus) ==
    {[status |-> okStatus, body |-> "ok"]}
        \cup {[status |-> st, body |-> "dict_message"] : st \in Statuses \ {okStatus}}

\* Resource.get_url
resource_url_List(r) == get_url(PyStr(<<r.endpoint>>), PyNone, <<>>)
resource_url(r) == get_url(PyStr(<<r.endpoint>>), r._id, <<>>)

\* the test "if self._is_deleted" of update and delete
IsDeleted_Unchecked(r) == FALSE
\* the test, were the flag one of the (type, id) rather than of the instance
IsDeleted_Shared(r) ==
    \E j \in DOMAIN res :
        /\ res[j].endpoint = r.endpoint /\ res[j]._id = r._id
        /\ res[j]._is_deleted
IsDeleted(r) == r._is_deleted

\* the test of delete on the status of the answer to DELETE
DeleteFailed_OnlyErrors(status) == status >= 400
DeleteFailed(status) == status # 204

\* the test of update on the status of the answer to PATCH
PatchFailed_OnlyErrors(status) == status >= 400
PatchFailed(status) == status # 202

\* Resource.update(**kwargs): a1 answers the PATCH, a2 the GET that follows
ResourceUpdate(r, a1, a2) ==
    IF IsDeleted(r)
    THEN [exc |-> "ResourceDeleted", val |-> PyNone, reqs |-> <<>>]
    ELSE LET patch == <<Request("PATCH", resource_url(r), a1.status)>>
         IN  IF PatchFailed(a1.status)
             THEN [exc |-> raise_error(a1.body), val |-> PyNone, reqs |-> patch]
             ELSE LET fresh(g) ==
                          [exc |-> g.exc, val |-> g.val, reqs |-> patch \o g.reqs]
                  IN  fresh(EndpointGet(r.endpoint, r._id, <<>>, <<a2>>, <<>>))

\* Resource.delete(): r is the instance afterwards
ResourceDelete(r, ans) ==
    IF IsDeleted(r)
    THEN [exc |-> "ResourceDeleted", r |-> r, reqs |-> <<>>]
    ELSE LET delete == <<Request("DELETE", resource_url(r), ans.status)>>
         IN  IF DeleteFailed(ans.status)
             THEN [exc |-> raise_error(ans.body), r |-> r, reqs |-> delete]
             ELSE [exc |-> "none", r |-> [r EXCEPT !._is_deleted = TRUE],
                   reqs |-> delete]

InitResource ==
    /\ reqs = <<>>
    /\ result = [op |-> "init"]
    /\ api = LoadedApi
    /\ thr = <<>>
    /\ ref = <<>>
    /\ rlist = Idle
    /\ rgen = <<>>
    /\ paged = Idle
    /\ pgen = <<>>
    /\ rows = <<>>
    /\ res \in {[i \in 1..2 |-> manufacture("widget", ServerObject("widget", ids[i]))] :
                    ids \in [1..2 -> RefIds]}

\* res[i].update(...); the Resource it returns is a new instance
ResUpdate(i) ==
    \E a1 \in MutationAnswers(202), a2 \in FewAnswers(200) :
        \E u \in {ResourceUpdate(res[i], a1, a2)} :
            /\ Len(reqs) + Len(u.reqs) <= MaxResReqs
            /\ reqs' = reqs \o Logged(u.reqs, Who("res", i))
            /\ res' = IF u.exc = "none" /\ Len(res) < MaxRes
                      THEN Append(res, u.val) ELSE res
            /\ result' = [op |-> "update", who |-> i, exc |-> u.exc, val |-> u.val,
                          wasDeleted |-> res[i]._is_deleted, nreqs |-> Len(u.reqs)]
            /\ UNCHANGED <<ref, rlist, rgen, paged, pgen, rows, api, thr>>

\* res[i].delete()
ResDelete(i) ==
    \E ans \in MutationAnswers(204) :
        \E d \in {ResourceDelete(res[i], ans)} :
            /\ Len(reqs) + Len(d.reqs) <= MaxResReqs
            /\ reqs' = reqs \o Logged(d.reqs, Who("res", i))
            /\ res' = [res EXCEPT ![i] = d.r]
            /\ result' = [op |-> "delete", who |-> i, exc |-> d.exc, val |-> PyNone,
                          wasDeleted |-> res[i]._is_deleted, nreqs |-> Len(d.reqs)]
            /\ UNCHANGED <<ref, rlist, rgen, paged, pgen, rows, api, thr>>

NextResource == \E i \in DOMAIN res : ResUpdate(i) \/ ResDelete(i)

SpecResource == InitResource /\ [][NextResource]_vars

DeletesOf(i) ==
    {j \in RequestsOf(Who("res", i)) : reqs[j].method = "DELETE"}

\* C7: update() and delete() on a Resource whose flag is set raise
\* ResourceDeleted and issue no request; a Resource issues nothing after its
\* DELETE was answered 204, so at most one DELETE of it is answered 204.
C7_DeletedNoRequest ==
    /\ (result.op \in {"update", "delete"} /\ result.wasDeleted) =>
            result.exc = "ResourceDeleted" /\ result.nreqs = 0
    /\ \A i \in DOMAIN res : \A j, k \in RequestsOf(Who("res", i)) :
            (j < k) => ~(reqs[j].method = "DELETE" /\ reqs[j].status = 204)

\* delete() twice, and update() after delete(): one DELETE in the log
C7_Witness ==
    /\ result.op \in {"update", "delete"} /\ result.wasDeleted
    /\ Cardinality(DeletesOf(result.who)) = 1

\* C8: the flag of a Resource is set exactly when a DELETE it issued was
\* answered 204: it starts false, a failed delete() leaves it false, and it
\* is never reset.
C8_DeletedFlag ==
    \A i \in DOMAIN res :
        res[i]._is_deleted <=> \E j \in DeletesOf(i) : reqs[j].status = 204

\* a delete() that failed, then one that succeeded
C8_Witness ==
    \E i \in DOMAIN res :
        /\ res[i]._is_deleted
        /\ \E j \in DeletesOf(i) : reqs[j].status # 204

(***************************** ResourceProxyList ***************************)
PAGE_ROWS == 20

\* ResourceProxyList.__init__
NewResourceProxyList(endpoint, ids) ==
    [_endpoint |-> endpoint, _ids |-> ids, _cache |-> <<>>, _is_cached |-> FALSE]

\* int(ceil(len(self._ids) / self.PAGE_ROWS)): "/" on two integers is the
\* floor division of Python 2, the interpreter that has dict.iteritems
PagesCount(n) == n \div PAGE_ROWS

\* self._ids[offset:onset]
IdsSlice(ids, page_num) ==
    SubSeq(ids, page_num * PAGE_ROWS + 1,
           Min(page_num * PAGE_ROWS + PAGE_ROWS, Len(ids)))

\* a generator made by ResourceProxyList.__iter__ that has not run yet
\* (snap: the size of the dict when itervalues() was called)
NewListGen == [st |-> "new", mode |-> "none", page_num |-> 0, pending |-> <<>>,
               idx |-> 0, snap |-> 0, out |-> <<>>, began |-> -1, late |-> FALSE]

\* One next() on a generator of ResourceProxyList.__iter__.  The items of the
\* dict get_many returned are taken in the order they were put in; itervalues
\* raises RuntimeError when the dict has changed size under it.
RECURSIVE ListAdvance(_, _, _, _)
ListAdvance(l, g, ans, missing) ==
    CASE g.st = "new" /\ l._is_cached ->
            ListAdvance(l, [g EXCEPT !.st = "replay", !.mode = "replay",
                                     !.snap = Len(l._cache)], ans, missing)
      [] g.st = "new" /\ ~l._is_cached ->
            ListAdvance([l EXCEPT !._is_cached = TRUE],
                        [g EXCEPT !.st = "fetch", !.mode = "fetch"], ans, missing)
      [] g.st = "fetch" /\ g.pending # <<>> ->
            [l |-> [l EXCEPT !._cache = DictPut(@, Head(g.pending).k, Head(g.pending).v)],
             g |-> [g EXCEPT !.pending = Tail(@), !.out = Append(@, Head(g.pending).v)],
             reqs |-> <<>>, ev |-> [k |-> "yield", item |-> Head(g.pending).v]]
      [] g.st = "fetch" /\ g.pending = <<>> /\ g.page_num >= PagesCount(Len(l._ids)) ->
            [l |-> l, g |-> [g EXCEPT !.st = "done"], reqs |-> <<>>,
             ev |-> [k |-> "stop"]]
      [] g.st = "fetch" /\ g.pending = <<>> /\ g.page_num < PagesCount(Len(l._ids)) ->
            LET m == GetMany(l._endpoint, IdsSlice(l._ids, g.page_num), ans, missing)
            IN  IF m.exc # "none"
                THEN [l |-> l, g |-> [g EXCEPT !.st = "raised"], reqs |-> m.reqs,
                      ev |-> [k |-> "raise", exc |-> m.exc]]
                ELSE LET rest == ListAdvance(l, [g EXCEPT !.pending = m.val,
                                                          !.page_num = @ + 1],
                                             ans, missing)
                     IN  [rest EXCEPT !.reqs = m.reqs \o @]
      [] g.st = "replay" /\ Len(l._cache) # g.snap ->
            [l |-> l, g |-> [g EXCEPT !.st = "raised"], reqs |-> <<>>,
             ev |-> [k |-> "raise", exc |-> "RuntimeError"]]
      [] g.st = "replay" /\ Len(l._cache) = g.snap /\ g.idx < g.snap ->
            [l |-> l,
             g |-> [g EXCEPT !.idx = @ + 1, !.out = Append(@, l._cache[g.idx + 1].v)],
             reqs |-> <<>>, ev |-> [k |-> "yield", item |-> l._cache[g.idx + 1].v]]
      [] g.st = "replay" /\ Len(l._cache) = g.snap /\ g.idx >= g.snap ->
            [l |-> l, g |-> [g EXCEPT !.st = "done"], reqs |-> <<>>,
             ev |-> [k |-> "stop"]]
      [] OTHER ->
            [l |-> l, g |-> g, reqs |-> <<>>, ev |-> [k |-> "stop"]]

\* the numbers of declared ids tried: around the multiples of PAGE_ROWS
IdCounts == {0, 1, PAGE_ROWS, PAGE_ROWS + 1, MaxIds}

ListGens == 1..NumListGens

\* the ids "1", ..., "n", as manufacture parses them out of URLs
DeclaredIds(n) == [i \in 1..n |-> PyStr(<<IntToStr(i)>>)]

\* the declared ids the server does not hold
MissingIds == {PyToStr(rlist._ids[i]) : i \in DOMAIN rlist._ids}
                \ {<<IntToStr(rows[j])>> : j \in DOMAIN rows}

InitList ==
    /\ reqs = <<>>
    /\ result = [op |-> "init"]
    /\ api = LoadedApi
    /\ thr = <<>>
    /\ ref = <<>>
    /\ \E n \in IdCounts :
        /\ rlist = NewResourceProxyList("widget", DeclaredIds(n))
        /\ rows \in {UpTo(n), UpTo(IF n > 0 THEN n - 1 ELSE 0)}
    /\ rgen = [i \in ListGens |-> NewListGen]
    /\ paged = Idle
    /\ pgen = <<>>
    /\ res = <<>>

\* one next() on the i-th generator of iter(rlist)
ListNext(i) ==
    \E ans \in FewAnswers(200) :
        LET g == rgen[i]
            r == ListAdvance(rlist, g, ans, MissingIds)
            g2 == IF g.st = "new"
                  THEN [r.g EXCEPT !.began = Len(reqs),
                                   !.late = \E j \in ListGens : /\ rgen[j].mode = "fetch"
                                                            /\ rgen[j].st = "done"]
                  ELSE r.g
        IN  /\ g.st \notin {"done", "raised"}
            /\ i > 1 => rgen[i - 1].st # "new"
            /\ rlist' = r.l
            /\ rgen' = [rgen EXCEPT ![i] = g2]
            /\ reqs' = reqs \o Logged(r.reqs, Who("rgen", i))
            /\ result' = [op |-> "next", who |-> i, ev |-> r.ev]
            /\ UNCHANGED <<ref, paged, pgen, rows, res, api, thr>>

NextList == \E i \in ListGens : ListNext(i)

SpecList == InitList /\ [][NextList]_vars

CeilDiv(n, k) == (n + k - 1) \div k

\* C2 as stated: a full iteration of a list of N ids issues ceil(N / PAGE_ROWS)
\* get_many requests, and an iteration begun after it issues none.
C2_BatchRequests ==
    \A i \in ListGens :
        rgen[i].st = "done" =>
            /\ rgen[i].mode = "fetch" =>
                    Cardinality(RequestsOf(Who("rgen", i)))
                        = CeilDiv(Len(rlist._ids), PAGE_ROWS)
            /\ rgen[i].late => RequestsOf(Who("rgen", i)) = {}

(***************************** one call on a fresh client ******************)
\* list(rlist): next() until the generator ends or raises; answers[i] answers
\* the i-th request
RECURSIVE ListIterateAll(_, _, _, _)
ListIterateAll(l, g, answers, missing) ==
    LET step(r) ==
            IF r.ev.k = "yield"
            THEN LET rest == ListIterateAll(r.l, r.g,
                                            IF r.reqs # <<>> /\ Len(answers) > 1
                                            THEN Tail(answers) ELSE answers,
                                            missing)
                 IN  [rest EXCEPT !.reqs = r.reqs \o @]
            ELSE [exc |-> IF r.ev.k = "raise" THEN r.ev.exc ELSE "none",
                  val |-> r.g.out, reqs |-> r.reqs, l |-> r.l]
    IN  step(ListAdvance(l, g, Head(answers), missing))

\* list(endpoint.filter(**kwargs)): a1 answers the request of filter
ListAll(endpoint, kwargs, a1, answers, rws) ==
    LET listed(f, all) ==
            [exc |-> all.exc, val |-> all.val, reqs |-> f.reqs \o all.reqs]
        filtered(f) ==
            IF f.exc # "none" THEN [exc |-> f.exc, val |-> <<>>, reqs |-> f.reqs]
            ELSE listed(f, IterateAll(f.val, NewGen, answers, rws))
    IN  filtered(EndpointFilter(endpoint, kwargs, a1, rws))

\* the id of the resource a POST creates, and the Location headers a server
\* names it with: server-relative, or absolute
CreatedId == "7"
Locations ==
    {StrCat(base_path, <<"widget", CreatedId, "">>),
     StrCat(base_url, StrCat(base_path, <<"widget", CreatedId, "">>))}

\* the status each method's caller requires
ExpectedStatus(method) ==
    CASE method = "GET" -> 200
      [] method = "POST" -> 201
      [] method = "PATCH" -> 202
      [] method = "DELETE" -> 204

InitOps ==
    /\ reqs = <<>>
    /\ result = [op |-> "init"]
    /\ api = LoadedApi
    /\ thr = <<>>
    /\ ref = <<>>
    /\ rlist = Idle
    /\ rgen = <<>>
    /\ paged = Idle
    /\ pgen = <<>>
    /\ rows \in {UpTo(n) : n \in 0..MaxRows}
    /\ res = <<manufacture("widget", ServerObject("widget", "1"))>>

\* the call's requests and outcome are recorded
Called(op, arg, r) ==
    /\ result.op = "init"
    /\ reqs' = reqs \o Logged(r.reqs, Who("call", 0))
    /\ result' = [op |-> op, arg |-> arg, exc |-> r.exc, val |-> r.val]

\* api.widget.get('1')
OpGet ==
    \E a1 \in Answers(200) :
        /\ Called("get", <<"1">>, EndpointGet("widget", PyStr(<<"1">>), <<>>, <<a1>>, rows))
        /\ UNCHANGED <<ref, rlist, rgen, paged, pgen, rows, res, api, thr>>

\* api.widget.add(...)
OpAdd ==
    \E a1 \in Answers(201), location \in Locations, a2 \in Answers(200) :
        /\ Called("add", location, EndpointAdd("widget", a1, location, a2))
        /\ UNCHANGED <<ref, rlist, rgen, paged, pgen, rows, res, api, thr>>

\* res[1].update(...)
OpUpdate ==
    \E a1 \in Answers(202), a2 \in Answers(200) :
        /\ Called("update", <<>>, ResourceUpdate(res[1], a1, a2))
        /\ UNCHANGED <<ref, rlist, rgen, paged, pgen, rows, res, api, thr>>

\* res[1].delete()
OpDelete ==
    \E a1 \in Answers(204) :
        \E d \in {ResourceDelete(res[1], a1)} :
            /\ Called("delete", <<>>, [exc |-> d.exc, val |-> PyNone, reqs |-> d.reqs])
            /\ res' = <<d.r>>
            /\ UNCHANGED <<ref, rlist, rgen, paged, pgen, rows, api, thr>>

\* list(api.widget.all())
OpList ==
    \E a1 \in Answers(200), a2 \in FewAnswers(200), a3 \in FewAnswers(200) :
        /\ Called("list", <<>>, ListAll("widget", <<>>, a1, <<a2, a3, a3>>, rows))
        /\ UNCHANGED <<ref, rlist, rgen, paged, pgen, rows, res, api, thr>>

\* list(l) for a ResourceProxyList l of one or two full chunks of ids
OpChunks ==
    \E n \in {PAGE_ROWS, 2 * PAGE_ROWS}, a1 \in Answers(200), a2 \in FewAnswers(200) :
        \E r \in {ListIterateAll(NewResourceProxyList("widget", DeclaredIds(n)),
                                 NewListGen, <<a1, a2>>, {})} :
            /\ Called("chunks", <<>>, r)
            /\ rlist' = r.l
            /\ UNCHANGED <<ref, rgen, paged, pgen, rows, res, api, thr>>

NextOps == OpGet \/ OpAdd \/ OpUpdate \/ OpDelete \/ OpList \/ OpChunks

SpecOps == InitOps /\ [][NextOps]_vars

\* the request at position i was answered with another status than the one
\* its caller requires
Unexpected(i) == reqs[i].status # ExpectedStatus(reqs[i].method)

\* C11 as stated: add whose POST is answered 201 with a server-relative
\* Location, and whose GET is answered 200, has issued one GET for that
\* resource on the service and returns the Resource of that id.
C11_AddRelativeLocation ==
    (result.op = "add" /\ ~HasScheme(result.arg)
        /\ Len(reqs) >= 1 /\ reqs[1].status = 201
        /\ \A i \in DOMAIN reqs : ~Unexpected(i)) =>
        /\ result.exc = "none"
        /\ result.val._id = PyStr(<<CreatedId>>)
        /\ result.val.endpoint = "widget"
        /\ Len(reqs) = 2
        /\ reqs[2].method = "GET"
        /\ reqs[2].url = get_url(PyStr(<<"widget">>), PyStr(<<CreatedId>>), <<>>)

\* C12 as stated: a call that received a response of another status than the
\* one it requires raises BadHttpStatus, whatever the body is.
C12_BadStatusRaises ==
    (result.op # "init" /\ \E i \in DOMAIN reqs : Unexpected(i)) =>
        result.exc = "BadHttpStatus"

\* C13: a call that received a response of an unexpected status raises, and
\* that response answers the last request the call issued.
C13_NoRequestAfterFailure ==
    \A i \in DOMAIN reqs :
        Unexpected(i) => i = Len(reqs) /\ result.exc # "none"

\* a listing whose second page request fails after the first two requests
\* succeeded
C13_Witness ==
    /\ result.op = "list" /\ Len(reqs) = 3
    /\ ~Unexpected(1) /\ ~Unexpected(2) /\ Unexpected(3)
    /\ result.exc = "BadHttpStatus"

(***************************** Parser, on resource URLs ********************)
\* the bases, types and ids of the resource URLs {base}/{type}/{id}/ tried;
\* a base is given split on "/" like every string: "" is <<"">>
UrlBases == {<<"">>, <<"", "api", "v1">>, <<"http:", "", "h">>,
             <<"http:", "", "h", "api", "v1">>, <<"api">>}
UrlTypes == {"widget", "user", "v1", "7", "a"}
UrlIds == {"1", "7", "42", "0", "abc", "x-1"}

\* '%s/%s/%s/' % (base, type, id)
ResourceUrl(base, type, id) == StrCat(base, <<"", type, id, "">>)

InitParser ==
    /\ reqs = <<>>
    /\ \E base \in UrlBases, type \in UrlTypes, id \in UrlIds :
            result = [op |-> "init", type |-> type, id |-> id,
                      url |-> ResourceUrl(base, type, id)]
    /\ api = LoadedApi
    /\ thr = <<>>
    /\ ref = <<>>
    /\ rlist = Idle
    /\ rgen = <<>>
    /\ paged = Idle
    /\ pgen = <<>>
    /\ rows = <<>>
    /\ res = <<>>

\* api.parser.get_resource_ident(url)
Identify ==
    /\ result.op = "init"
    /\ result' = [result EXCEPT !.op = "ident"] @@
                    [val |-> get_resource_ident(result.url)]
    /\ UNCHANGED <<reqs, ref, rlist, rgen, paged, pgen, rows, res, api, thr>>

NextParser == Identify

SpecParser == InitParser /\ [][NextParser]_vars

\* C15: get_resource_ident of the URL {base}/{type}/{id}/ is (type, id).
C15_Identify ==
    result.op = "ident" => result.val = <<result.type, result.id>>

\* an absolute URL under the service's base path has been identified
C15_Witness ==
    /\ result.op = "ident"
    /\ result.url = <<"http:", "", "h", "api", "v1", "widget", "42", "">>
    /\ result.val = <<"widget", "42">>

(***************************** Api, from its construction ******************)
\* the names asked of get_endpoint: two of the registry, one that is not
EndpointNames == {"widget", "user", "nope"}

\* api.<name>.<kind>(...): the endpoint is looked up, then called
ApiOp(a, name, kind, a1, a2, rws) ==
    LET on(e) ==
            IF e.exc # "none" THEN [exc |-> e.exc, val |-> PyNone, reqs |-> <<>>]
            ELSE CASE kind = "get" ->
                        EndpointGet(e.val.resource_name, PyStr(<<"1">>), <<>>,
                                    <<a1>>, rws)
                   [] kind = "add" ->
                        EndpointAdd(e.val.resource_name, a1,
                                    StrCat(base_url,
                                           StrCat(base_path,
                                                  <<e.val.resource_name, CreatedId, "">>)),
                                    a2)
                   [] kind = "list" ->
                        ListAll(e.val.resource_name, <<>>, a1, <<a2>>, rws)
    IN  on(get_endpoint(a, name))

InitApi ==
    /\ reqs = <<>>
    /\ result = [op |-> "init"]
    /\ api = Idle
    /\ thr = <<>>
    /\ ref = <<>>
    /\ rlist = Idle
    /\ rgen = <<>>
    /\ paged = Idle
    /\ pgen = <<>>
    /\ rows \in {UpTo(n) : n \in 0..PageLimit}
    /\ res = <<>>

\* Api('http://h/api/v1/', load_endpoints=...)
Construct ==
    \E load_endpoints \in BOOLEAN, ans \in Answers(200) :
        \E c \in {NewApi(load_endpoints, Response(ans, RootBody))} :
            /\ result.op = "init"
            /\ api' = IF c.exc = "none" THEN c.val ELSE api
            /\ reqs' = reqs \o Logged(c.reqs, Who("init", 0))
            /\ result' = [op |-> "construct", load |-> load_endpoints, exc |-> c.exc]
            /\ UNCHANGED <<ref, rlist, rgen, paged, pgen, rows, res, thr>>

\* api.get_endpoint(name)
ApiGetEndpoint ==
    \E name \in EndpointNames :
        \E e \in {get_endpoint(api, name)} :
            /\ api # Idle
            /\ result' = [op |-> "endpoint", name |-> name, exc |-> e.exc,
                          val |-> e.val]
            /\ UNCHANGED <<reqs, ref, rlist, rgen, paged, pgen, rows, res, api, thr>>

\* a call through an endpoint of the client
ApiCall ==
    \E name \in EndpointNames, kind \in {"get", "add", "list"}, a2 \in FewAnswers(200) :
        \E a1 \in FewAnswers(IF kind = "add" THEN 201 ELSE 200) :
        \E r \in {ApiOp(api, name, kind, a1, a2, rows)} :
            /\ api # Idle
            /\ Len(reqs) + Len(r.reqs) <= MaxApiReqs
            /\ reqs' = reqs \o Logged(r.reqs, Who("call", 0))
            /\ result' = [op |-> kind, name |-> name, exc |-> r.exc, val |-> r.val]
            /\ res' = IF r.exc = "none" /\ kind # "list" /\ Len(res) < MaxApiRes
                      THEN Append(res, r.val) ELSE res
            /\ UNCHANGED <<ref, rlist, rgen, paged, pgen, rows, api, thr>>

\* res[i].update(...) or res[i].delete() on a Resource a call returned
ApiMutate ==
    \E i \in DOMAIN res, delete \in BOOLEAN, a2 \in FewAnswers(200) :
        \E a1 \in FewAnswers(IF delete THEN 204 ELSE 202) :
        \E r \in {IF delete THEN ResourceDelete(res[i], a1)
                  ELSE ResourceUpdate(res[i], a1, a2) @@ [r |-> res[i]]} :
            /\ Len(reqs) + Len(r.reqs) <= MaxApiReqs
            /\ reqs' = reqs \o Logged(r.reqs, Who("res", i))
            /\ res' = [res EXCEPT ![i] = r.r]
            /\ result' = [op |-> IF delete THEN "delete" ELSE "update",
                          name |-> res[i].endpoint, exc |-> r.exc, val |-> PyNone]
            /\ UNCHANGED <<ref, rlist, rgen, paged, pgen, rows, api, thr>>

NextApi == Construct \/ ApiGetEndpoint \/ ApiCall \/ ApiMutate

SpecApi == InitApi /\ [][NextApi]_vars

\* the requests of the service root
RootRequests == {i \in DOMAIN reqs : reqs[i].url = ServiceUrl}

\* the registry of a client: the names it can look up
Registry(a) == IF "_endpoints" \in DOMAIN a THEN DOMAIN a._endpoints ELSE {}

\* C16: a client that loads its endpoints has issued exactly one request of
\* the service root, the first request, issued by its construction; no call
\* issues another one, and no step changes a constructed client.
C16_OneDiscovery ==
    /\ [](/\ \A i \in RootRequests : i = 1 /\ reqs[i].who.k = "init"
          /\ (api # Idle /\ "_endpoints" \in DOMAIN api) => RootRequests = {1})
    /\ [][api # Idle => api' = api]_vars

\* a loaded client after calls through its endpoints and on a Resource
C16_Witness ==
    /\ api # Idle /\ "_endpoints" \in DOMAIN api
    /\ Len(reqs) = MaxApiReqs
    /\ \E i \in DOMAIN reqs : reqs[i].who.k = "res"
    /\ \E i \in DOMAIN reqs : reqs[i].who.k = "call"

\* C17 as stated: get_endpoint(name) returns the endpoint of name when name
\* is in the registry and raises AttributeError when it is not, on every
\* client.
C17_EndpointLookup ==
    result.op = "endpoint" =>
        IF result.name \in Registry(api)
        THEN result.exc = "none" /\ result.val.resource_name = result.name
        ELSE result.exc = "AttributeError"

(***************************** Resource.manufacture, related fields ********)
\* str.startswith on strings split on "/", for a prefix that ends with "/"
StartsWith(str, prefix) ==
    /\ Len(str) >= Len(prefix)
    /\ SubSeq(str, 1, Len(prefix) - 1) = SubSeq(prefix, 1, Len(prefix) - 1)

\* Parser.is_resource_url
is_resource_url_AnyString(value) == value.t = "str"
is_resource_url(value) == value.t = "str" /\ StartsWith(value.s, base_path)

\* "name, id = api.parser.get_resource_ident(item)": the assert of
\* get_resource_ident on a value that is no string, ValueError when the parts
\* are not two
UnpackIdent(value) ==
    IF value.t # "str" THEN [exc |-> "AssertionError", val |-> <<>>]
    ELSE IF Len(get_resource_ident(value.s)) # 2
    THEN [exc |-> "ValueError", val |-> <<>>]
    ELSE [exc |-> "none", val |-> get_resource_ident(value.s)]

\* ResourceProxy.manufacture(api, url); reqs: the requests it issues
ProxyManufacture_Eager(a, url) ==
    LET made(e, f) == [exc |-> f.exc, val |-> f.x, reqs |-> f.reqs]
        named(u, e) ==
            IF e.exc # "none" THEN [exc |-> e.exc, val |-> PyNone, reqs |-> <<>>]
            ELSE made(e, RefFetch(NewResourceProxy(e.val.resource_name,
                                                   PyStr(<<u.val[2]>>)),
                                  [status |-> 200, body |-> "ok"]))
        parsed(u) ==
            IF u.exc # "none" THEN [exc |-> u.exc, val |-> PyNone, reqs |-> <<>>]
            ELSE named(u, get_endpoint(a, u.val[1]))
    IN  parsed(UnpackIdent(url))
ProxyManufacture(a, url) ==
    LET named(u, e) ==
            IF e.exc # "none" THEN [exc |-> e.exc, val |-> PyNone, reqs |-> <<>>]
            ELSE [exc |-> "none", reqs |-> <<>>,
                  val |-> NewResourceProxy(e.val.resource_name, PyStr(<<u.val[2]>>))]
        parsed(u) ==
            IF u.exc # "none" THEN [exc |-> u.exc, val |-> PyNone, reqs |-> <<>>]
            ELSE named(u, get_endpoint(a, u.val[1]))
    IN  parsed(UnpackIdent(url))

\* the loop of ResourceProxyList.manufacture over the items of data: the ids
\* collected, and the name of the last item
RECURSIVE CollectIds(_)
CollectIds(data) ==
    IF data = <<>> THEN [exc |-> "none", ids |-> <<>>, name |-> ""]
    ELSE LET rest(u, c) ==
                IF c.exc # "none" THEN c
                ELSE [exc |-> "none", ids |-> <<PyStr(<<u.val[2]>>)>> \o c.ids,
                      name |-> IF Len(data) = 1 THEN u.val[1] ELSE c.name]
             first(u) ==
                IF u.exc # "none" THEN [exc |-> u.exc, ids |-> <<>>, name |-> ""]
                ELSE rest(u, CollectIds(Tail(data)))
         IN  first(UnpackIdent(Head(data)))

\* ResourceProxyList.manufacture(api, data): an empty list stays a list
ProxyListManufacture(a, data) ==
    LET named(c, e) ==
            IF e.exc # "none" THEN [exc |-> e.exc, val |-> PyNone, reqs |-> <<>>]
            ELSE [exc |-> "none", reqs |-> <<>>,
                  val |-> NewResourceProxyList(e.val.resource_name, c.ids)]
        collected(c) ==
            IF c.exc # "none" THEN [exc |-> c.exc, val |-> PyNone, reqs |-> <<>>]
            ELSE named(c, get_endpoint(a, c.name))
    IN  IF data = <<>> THEN [exc |-> "none", val |-> PyList(<<>>), reqs |-> <<>>]
        ELSE collected(CollectIds(data))

\* what Resource.manufacture puts in place of one value of data
RelatedValue(a, value) ==
    IF is_resource_url(value) THEN ProxyManufacture(a, value)
    ELSE IF value.t = "list" THEN ProxyListManufacture(a, value.l)
    ELSE [exc |-> "none", val |-> value, reqs |-> <<>>]

\* Resource.manufacture(endpoint, data) in full; an exception of a value ends
\* it (the objects tried have at most one value that raises)
ResourceManufacture(a, endpoint, obj) ==
    LET made == [attr \in DOMAIN obj.fields |-> RelatedValue(a, obj.fields[attr])]
        failed == {attr \in DOMAIN obj.fields : made[attr].exc # "none"}
        done(m, bad) ==
            [exc |-> IF bad = {} THEN "none" ELSE m[CHOOSE attr \in bad : TRUE].exc,
             val |-> IF bad = {}
                     THEN NewResource(endpoint,
                                      [attr \in DOMAIN m |-> m[attr].val],
                                      PyStr(<<get_resource_ident(obj.resource_uri)[2]>>))
                     ELSE PyNone,
             reqs |-> IF \E attr \in DOMAIN m : m[attr].reqs # <<>>
                      THEN m[CHOOSE attr \in DOMAIN m : m[attr].reqs # <<>>].reqs
                      ELSE <<>>]
    IN  done(made, failed)

\* ResourceProxyList.__getitem__(item)
ListGetItem_Undeclared(l, item, ans) ==
    LET key == PyStr(PyToStr(item))
        stored(g) ==
            IF g.exc # "none"
            THEN [exc |-> g.exc, val |-> PyNone, l |-> l, reqs |-> g.reqs]
            ELSE [exc |-> "none", val |-> g.val, reqs |-> g.reqs,
                  l |-> [l EXCEPT !._cache = DictPut(@, key, g.val)]]
    IN  IF ~DictHas(l._cache, key)
        THEN stored(EndpointGet(l._endpoint, key, <<>>, <<ans>>, <<>>))
        ELSE [exc |-> "none", val |-> DictGet(l._cache, key), l |-> l, reqs |-> <<>>]
ListGetItem(l, item, ans) ==
    LET key == PyStr(PyToStr(item))
        stored(g) ==
            IF g.exc # "none"
            THEN [exc |-> g.exc, val |-> PyNone, l |-> l, reqs |-> g.reqs]
            ELSE [exc |-> "none", val |-> g.val, reqs |-> g.reqs,
                  l |-> [l EXCEPT !._cache = DictPut(@, key, g.val)]]
    IN  IF \A i \in DOMAIN l._ids : l._ids[i] # key
        THEN [exc |-> "KeyError", val |-> PyNone, l |-> l, reqs |-> <<>>]
        ELSE IF ~DictHas(l._cache, key)
        THEN stored(EndpointGet(l._endpoint, key, <<>>, <<ans>>, <<>>))
        ELSE [exc |-> "none", val |-> DictGet(l._cache, key), l |-> l, reqs |-> <<>>]

\* EndpointProxy.get(id) of an object that has related fields
GetRelated(a, endpoint, id, ans, obj) ==
    LET made(r, m) == [exc |-> m.exc, val |-> m.val, reqs |-> r.reqs \o m.reqs]
        got(r) ==
            IF r.exc # "none" THEN r
            ELSE made(r, ResourceManufacture(a, endpoint, r.val))
    IN  got(api_get(PyStr(<<endpoint>>), id, <<>>, Response(ans, obj)))

(***************************** related fields, touched later ***************)
\* the URL the server names the resource (name, id) with
UriOf(name, id) == PyStr(StrCat(base_path, <<name, id, "">>))

\* the values the server gives the field owner, and the lists it gives the
\* field tags: resource URLs, other strings, numbers
OwnerValues == {PyStr(<<"x">>), UriOf("user", "3"), UriOf("nope", "3")}
TagLists ==
    {<<>>,
     <<UriOf("user", "1"), UriOf("user", "2")>>,
     <<PyStr(<<"x">>)>>,
     <<PyInt(5)>>,
     <<UriOf("user", "1"), PyStr(<<"x">>), UriOf("user", "2")>>,
     <<UriOf("user", "1"), PyInt(5)>>}

\* the object the server holds for widget 1
RelatedObject(owner, tags) ==
    [resource_uri |-> StrCat(base_path, <<"widget", "1", "">>),
     fields |-> [attr \in {"id", "owner", "tags"} |->
                    CASE attr = "id" -> PyInt(1)
                      [] attr = "owner" -> owner
                      [] attr = "tags" -> PyList(tags)]]

\* the values of the object that make manufacture raise
Raising(obj) ==
    {attr \in DOMAIN obj.fields : RelatedValue(LoadedApi, obj.fields[attr]).exc # "none"}

IsProxy(v) == "_resource" \in DOMAIN v
IsProxyList(v) == "_ids" \in DOMAIN v

InitLazy ==
    /\ reqs = <<>>
    /\ \E owner \in OwnerValues, tags \in TagLists :
        /\ Cardinality(Raising(RelatedObject(owner, tags))) <= 1
        /\ result = [op |-> "init", obj |-> RelatedObject(owner, tags)]
    /\ api = LoadedApi
    /\ thr = <<>>
    /\ ref = <<>>
    /\ rlist = Idle
    /\ rgen = <<>>
    /\ paged = Idle
    /\ pgen = <<>>
    /\ rows = <<>>
    /\ res = <<>>

\* api.widget.get('1'): ref and rlist are the placeholders its fields owner
\* and tags hold
Materialize ==
    \E ans \in FewAnswers(200) :
        \E m \in {GetRelated(api, "widget", PyStr(<<"1">>), ans, result.obj)} :
            /\ result.op = "init"
            /\ reqs' = reqs \o Logged(m.reqs, Who("call", 0))
            /\ result' = [op |-> "materialize", obj |-> result.obj, exc |-> m.exc,
                          val |-> m.val]
            /\ res' = IF m.exc = "none" THEN <<m.val>> ELSE res
            /\ ref' = IF m.exc = "none" /\ IsProxy(m.val._data["owner"])
                      THEN <<m.val._data["owner"]>> ELSE ref
            /\ rlist' = IF m.exc = "none" /\ IsProxyList(m.val._data["tags"])
                        THEN m.val._data["tags"] ELSE rlist
            /\ UNCHANGED <<rgen, paged, pgen, rows, api, thr>>

\* res[1].owner.<field>
TouchRef ==
    /\ ref # <<>>
    /\ \E ans \in FewAnswers(200) :
        \E f \in {RefFetch(ref[1], ans)} :
            /\ Len(reqs) + Len(f.reqs) <= MaxReqs
            /\ ref' = <<f.x>>
            /\ reqs' = reqs \o Logged(f.reqs, Who("ref", 1))
            /\ result' = [op |-> "ref", obj |-> result.obj, exc |-> f.exc, val |-> f.val]
            /\ UNCHANGED <<rlist, rgen, paged, pgen, rows, res, api, thr>>

\* list(res[1].tags)
TouchIterate ==
    /\ rlist # Idle
    /\ \E ans \in FewAnswers(200) :
        \E r \in {ListIterateAll(rlist, NewListGen, <<ans>>, {})} :
            /\ Len(reqs) + Len(r.reqs) <= MaxReqs
            /\ rlist' = r.l
            /\ reqs' = reqs \o Logged(r.reqs, Who("rlist", 0))
            /\ result' = [op |-> "iterate", obj |-> result.obj, exc |-> r.exc,
                          val |-> r.val]
            /\ UNCHANGED <<ref, rgen, paged, pgen, rows, res, api, thr>>

\* res[1].tags[item]
TouchIndex ==
    /\ rlist # Idle
    /\ \E item \in {PyStr(<<"1">>), PyInt(2), PyStr(<<"9">>)}, ans \in FewAnswers(200) :
        \E r \in {ListGetItem(rlist, item, ans)} :
            /\ Len(reqs) + Len(r.reqs) <= MaxReqs
            /\ rlist' = r.l
            /\ reqs' = reqs \o Logged(r.reqs, Who("rlist", 1))
            /\ result' = [op |-> "index", obj |-> result.obj, exc |-> r.exc,
                          val |-> r.val]
            /\ UNCHANGED <<ref, rgen, paged, pgen, rows, res, api, thr>>

NextLazy == Materialize \/ TouchRef \/ TouchIterate \/ TouchIndex

SpecLazy == InitLazy /\ [][NextLazy]_vars

\* C14: the call that materializes a Resource issues the request of that
\* resource and no other; every request of a related resource is issued by an
\* access to its placeholder.
C14_LazyRelated ==
    /\ \A i \in DOMAIN reqs :
            reqs[i].url # get_url(PyStr(<<"widget">>), PyStr(<<"1">>), <<>>)
                => reqs[i].who.k \in {"ref", "rlist"}
    /\ result.op = "materialize" => Len(reqs) = 1

\* a Resource with both placeholders, whose owner was fetched by an access
C14_Witness ==
    /\ res # <<>> /\ rlist # Idle /\ ref # <<>>
    /\ Truthy(ref[1]._resource)
    /\ \E i \in DOMAIN reqs : reqs[i].who.k = "ref"
    /\ \E i \in DOMAIN reqs : reqs[i].who.k = "rlist"

\* the ids of the entries of a list that are resource URLs, in order
RECURSIVE UrlIdsOf(_)
UrlIdsOf(data) ==
    IF data = <<>> THEN <<>>
    ELSE IF is_resource_url(Head(data))
    THEN <<PyStr(<<get_resource_ident(Head(data).s)[2]>>)>> \o UrlIdsOf(Tail(data))
    ELSE UrlIdsOf(Tail(data))

\* C18 as stated: a field whose value is a non-empty list becomes a list
\* placeholder whose ids are those of the entries that are resource URLs, in
\* order; the other entries are dropped and manufacture does not fail.
C18_ListDropsOthers ==
    (result.op = "materialize" /\ Len(reqs) = 1 /\ reqs[1].status = 200
        /\ result.obj.fields["tags"].l # <<>>
        /\ Raising(result.obj) \subseteq {"tags"}) =>
        /\ result.exc = "none"
        /\ IsProxyList(result.val._data["tags"])
        /\ result.val._data["tags"]._ids = UrlIdsOf(result.obj.fields["tags"].l)

(***************************** ResourceProxyList, indexed ******************)
\* the items asked of the list: declared ids as strings and as an integer,
\* and ids it does not declare
IndexItems == {PyStr(<<"1">>), PyInt(1), PyStr(<<"2">>), PyStr(<<"99">>), PyInt(0)}

InitIndex ==
    /\ reqs = <<>>
    /\ result = [op |-> "init"]
    /\ api = LoadedApi
    /\ thr = <<>>
    /\ ref = <<>>
    /\ \E n \in {1, 2, PAGE_ROWS} :
            rlist = NewResourceProxyList("widget", DeclaredIds(n))
    /\ rgen = <<>>
    /\ paged = Idle
    /\ pgen = <<>>
    /\ rows = <<>>
    /\ res = <<>>

\* rlist[item]
IndexGet ==
    \E item \in IndexItems, ans \in FewAnswers(200) :
        \E r \in {ListGetItem(rlist, item, ans)} :
            /\ Len(reqs) + Len(r.reqs) <= MaxReqs
            /\ rlist' = r.l
            /\ reqs' = reqs \o Logged(r.reqs, Who("rlist", 1))
            /\ result' = [op |-> "index", item |-> item, before |-> rlist,
                          began |-> Len(reqs), exc |-> r.exc, val |-> r.val]
            /\ UNCHANGED <<ref, rgen, paged, pgen, rows, res, api, thr>>

\* list(rlist), by the chunked path
IndexIterate ==
    \E ans \in FewAnswers(200) :
        \E r \in {ListIterateAll(rlist, NewListGen, <<ans>>, {})} :
            /\ Len(reqs) + Len(r.reqs) <= MaxReqs
            /\ rlist' = r.l
            /\ reqs' = reqs \o Logged(r.reqs, Who("rlist", 0))
            /\ result' = [op |-> "iterate", before |-> rlist, began |-> Len(reqs),
                          exc |-> r.exc, val |-> r.val]
            /\ UNCHANGED <<ref, rgen, paged, pgen, rows, res, api, thr>>

NextIndex == IndexGet \/ IndexIterate

SpecIndex == InitIndex /\ [][NextIndex]_vars

\* C19: rlist[item] with an id the list does not declare raises KeyError,
\* issues no request and leaves the list as it was; with a declared id that
\* is not a key of the cache it issues one GET of that id and, when the GET
\* succeeds, stores the Resource under the id, the flag left as it was.
C19_IndexedAccess ==
    result.op = "index" =>
        LET key == PyStr(PyToStr(result.item))
            before == result.before
        IN  IF \A i \in DOMAIN before._ids : before._ids[i] # key
            THEN /\ result.exc = "KeyError"
                 /\ Len(reqs) = result.began
                 /\ rlist = before
            ELSE ~DictHas(before._cache, key) =>
                 /\ Len(reqs) = result.began + 1
                 /\ reqs[Len(reqs)].method = "GET"
                 /\ reqs[Len(reqs)].url = get_url(PyStr(<<"widget">>), key, <<>>)
                 /\ rlist._is_cached = before._is_cached
                 /\ IF result.exc = "none"
                    THEN /\ DictGet(rlist._cache, key) = result.val
                         /\ result.val._id = key
                         /\ DictKeys(rlist._cache) = DictKeys(before._cache) \cup {key}
                    ELSE rlist = before

\* a declared id is fetched and stored, and an undeclared one was refused
C19_Witness ==
    /\ result.op = "index" /\ result.item = PyInt(1) /\ result.exc = "none"
    /\ Len(reqs) = result.began + 1
    /\ DictHas(rlist._cache, PyStr(<<"1">>))
    /\ result.before._is_cached

(***************************** ResourceProxy._fetch, by threads ************)
\* Each thread runs _fetch on the same ResourceProxy, ref[1], one statement
\* at a time; the interpreter may switch threads between any two of them.
Threads == 1..NumThreads

\* a thread that has not entered _fetch
NewThread == [pc |-> "test", fetched |-> PyNone, out |-> PyNone, exc |-> "none"]

\* self._resource = <the Resource endpoint.get returned>
StoreFetched_Cleared(x, val) == [x EXCEPT !._resource = PyNone]
StoreFetched(x, val) == [x EXCEPT !._resource = val]

InitRace ==
    /\ reqs = <<>>
    /\ result = [op |-> "init"]
    /\ api = LoadedApi
    /\ thr = [t \in Threads |-> NewThread]
    /\ \E id \in RefIds : ref = <<NewResourceProxy("widget", PyStr(<<id>>))>>
    /\ rlist = Idle
    /\ rgen = <<>>
    /\ paged = Idle
    /\ pgen = <<>>
    /\ rows = <<>>
    /\ res = <<>>

\* "if not self._resource": the slot is read and tested
RaceTest(t) ==
    /\ thr[t].pc = "test"
    /\ thr' = [thr EXCEPT ![t].pc = IF RefNeedsFetch(ref[1]) THEN "get" ELSE "return"]
    /\ result' = [op |-> "test", who |-> t]
    /\ UNCHANGED <<reqs, ref, rlist, rgen, paged, pgen, rows, res, api>>

\* "self._endpoint.get(self._id)": the request and its outcome
RaceGet(t) ==
    /\ thr[t].pc = "get"
    /\ \E ans \in Answers(200) :
        \E g \in {EndpointGet(ref[1]._endpoint, ref[1]._id, <<>>, <<ans>>, <<>>)} :
            /\ thr' = [thr EXCEPT ![t].pc = IF g.exc = "none" THEN "store" ELSE "raised",
                                  ![t].fetched = g.val,
                                  ![t].exc = g.exc]
            /\ reqs' = reqs \o Logged(g.reqs, Who("thr", t))
    /\ result' = [op |-> "get", who |-> t]
    /\ UNCHANGED <<ref, rlist, rgen, paged, pgen, rows, res, api>>

\* "self._resource = ...": the slot is assigned
RaceStore(t) ==
    /\ thr[t].pc = "store"
    /\ ref' = <<StoreFetched(ref[1], thr[t].fetched)>>
    /\ thr' = [thr EXCEPT ![t].pc = "return"]
    /\ result' = [op |-> "store", who |-> t]
    /\ UNCHANGED <<reqs, rlist, rgen, paged, pgen, rows, res, api>>

\* "return self._resource": the slot is read again
RaceReturn(t) ==
    /\ thr[t].pc = "return"
    /\ thr' = [thr EXCEPT ![t].pc = "done", ![t].out = ref[1]._resource]
    /\ result' = [op |-> "return", who |-> t]
    /\ UNCHANGED <<reqs, ref, rlist, rgen, paged, pgen, rows, res, api>>

NextRace == \E t \in Threads : RaceTest(t) \/ RaceGet(t) \/ RaceStore(t) \/ RaceReturn(t)

SpecRace == InitRace /\ [][NextRace]_vars

\* a Resource of the identity the placeholder names
IsTarget(v) == v.t = "Resource" /\ v._id = ref[1]._id /\ v.endpoint = ref[1]._endpoint

\* C20: under every interleaving each thread issues at most one fetch (two
\* threads: at most two), every thread that returns obtains a Resource of the
\* placeholder's id, and the slot holds nothing or such a Resource, and holds
\* one once a thread has returned.
C20_RaceSafe ==
    /\ \A t \in Threads : Cardinality(RequestsOf(Who("thr", t))) <= 1
    /\ Len(reqs) <= NumThreads
    /\ \A t \in Threads : thr[t].pc = "done" => IsTarget(thr[t].out)
    /\ ref[1]._resource = PyNone \/ IsTarget(ref[1]._resource)
    /\ (\E t \in Threads : thr[t].pc = "done") => IsTarget(ref[1]._resource)

\* two threads have both fetched and both returned
C20_Witness ==
    /\ \A t \in Threads : thr[t].pc = "done"
    /\ Len(reqs) = NumThreads
    /\ \A i \in DOMAIN reqs : reqs[i].status = 200

(***************************** ResourceList.__iter__, by threads ***********)
\* Each thread iterates the same ResourceList, paged.  __iter__ first picks
\* its generator, "self._cache if self._is_cached else self._fetch()"; the
\* body of _fetch, which sets the flag, runs only afterwards, and another
\* thread may run between the two.

\* a thread that has not entered __iter__ (fetch: whether it picked _fetch())
NewIterThread == [pc |-> "test", fetch |-> FALSE]

InitPagedRace ==
    /\ reqs = <<>>
    /\ result = [op |-> "init"]
    /\ api = LoadedApi
    /\ thr = [t \in Threads |-> NewIterThread]
    /\ ref = <<>>
    /\ rlist = Idle
    /\ rgen = <<>>
    /\ paged = Idle
    /\ pgen = [t \in Threads |-> NewGen]
    /\ rows \in {UpTo(n) : n \in 0..MaxRows}
    /\ res = <<>>

\* "generator = self._cache if self._is_cached else self._fetch()"
IterTest(t) ==
    /\ paged # Idle
    /\ thr[t].pc = "test"
    /\ thr' = [thr EXCEPT ![t] = [pc |-> "run", fetch |-> ~paged._is_cached]]
    /\ result' = [op |-> "test", who |-> t]
    /\ UNCHANGED <<reqs, ref, rlist, rgen, paged, pgen, rows, res, api>>

\* "for item in generator: yield item": one next() of thread t on the
\* generator it picked, whatever the flag has become since
IterNext(t) ==
    /\ paged # Idle
    /\ thr[t].pc = "run"
    /\ \E ans \in FewAnswers(200) :
        \E r \in {PagedAdvance(IF pgen[t].st = "new"
                               THEN [paged EXCEPT !._is_cached = ~thr[t].fetch]
                               ELSE paged,
                               pgen[t], ans, rows)} :
            /\ Len(reqs) + Len(r.reqs) <= MaxReqs
            /\ paged' = r.p
            /\ pgen' = [pgen EXCEPT ![t] = r.g]
            /\ thr' = [thr EXCEPT ![t].pc = IF r.g.st \in {"done", "raised"}
                                            THEN "end" ELSE "run"]
            /\ reqs' = reqs \o Logged(r.reqs, Who("pgen", t))
            /\ result' = [op |-> "next", who |-> t, ev |-> r.ev]
    /\ UNCHANGED <<ref, rlist, rgen, rows, res, api>>

NextPagedRace == PagedFilter \/ (\E t \in Threads : IterTest(t) \/ IterNext(t))

SpecPagedRace == InitPagedRace /\ [][NextPagedRace]_vars

\* C21 as stated: however the threads that began the first iteration
\* interleave, no object is in the accumulating cache more than once.
C21_CacheNoDuplicates ==
    paged # Idle =>
        \A i, j \in DOMAIN paged._cache : i # j => paged._cache[i] # paged._cache[j]

(***************************** several instances at once *******************)
\* Objects live in a heap, res; ref holds the addresses of the ResourceProxy,
\* ResourceProxyList and ResourceList objects the caller keeps.  An operation
\* on an object rewrites the cell at its address.  The requests are answered
\* here and not logged.

\* a constructor call makes a new object: __init__ binds a new None, {} or []
\* to the instance and no class keeps its instances
Alloc_Interned(heap, obj) ==
    LET key(x) == IF "_id" \in DOMAIN x THEN <<x._endpoint, x._id>>
                  ELSE IF "_ids" \in DOMAIN x THEN <<x._endpoint, x._ids>>
                  ELSE <<x.endpoint, x._filters>>
        same == {a \in DOMAIN heap : DOMAIN heap[a] = DOMAIN obj /\ key(heap[a]) = key(obj)}
    IN  IF same = {} THEN Len(heap) + 1 ELSE CHOOSE a \in same : TRUE
Alloc(heap, obj) == Len(heap) + 1

\* the heap with obj at address at
Stored(heap, at, obj) == IF at > Len(heap) THEN Append(heap, obj) ELSE heap

\* the class of an object
IsRef(x) == "_id" \in DOMAIN x
IsList(x) == "_ids" \in DOMAIN x
IsPaged(x) == "_filters" \in DOMAIN x

InitHeap ==
    /\ reqs = <<>>
    /\ result = [op |-> "init"]
    /\ api = LoadedApi
    /\ thr = <<>>
    /\ ref = <<>>
    /\ rlist = Idle
    /\ rgen = <<>>
    /\ paged = Idle
    /\ pgen = <<>>
    /\ rows = UpTo(PageLimit)
    /\ res = <<>>

\* ResourceProxy(endpoint, id), ResourceProxyList(endpoint, ids), or
\* api.widget.filter(**kwargs), which ends in ResourceList(endpoint, meta,
\* filters)
Make ==
    /\ Len(ref) < NumInst
    /\ \E obj \in {NewResourceProxy("widget", PyStr(<<id>>)) : id \in RefIds}
                    \cup {NewResourceProxyList("widget", DeclaredIds(n)) : n \in {1, PAGE_ROWS}}
                    \cup {EndpointFilter("widget", kwargs,
                                         [status |-> 200, body |-> "ok"], rows).val :
                            kwargs \in FilterChoices} :
        /\ res' = Stored(res, Alloc(res, obj), obj)
        /\ ref' = Append(ref, Alloc(res, obj))
    /\ result' = [op |-> "make", i |-> Len(ref) + 1]
    /\ UNCHANGED <<reqs, rlist, rgen, paged, pgen, rows, api, thr>>

\* a field access on the i-th object, a ResourceProxy
UseRef(i) ==
    /\ IsRef(res[ref[i]])
    /\ \E ans \in FewAnswers(200) :
        \E f \in {RefFetch(res[ref[i]], ans)} :
            res' = [res EXCEPT ![ref[i]] = f.x]
    /\ result' = [op |-> "use", i |-> i]
    /\ UNCHANGED <<reqs, ref, rlist, rgen, paged, pgen, rows, api, thr>>

\* list(l) or l[1] on the i-th object, a ResourceProxyList
UseList(i) ==
    /\ IsList(res[ref[i]])
    /\ \E ans \in FewAnswers(200), whole \in BOOLEAN :
        \E f \in {IF whole THEN ListIterateAll(res[ref[i]], NewListGen, <<ans>>, {})
                  ELSE ListGetItem(res[ref[i]], PyInt(1), ans)} :
            res' = [res EXCEPT ![ref[i]] = f.l]
    /\ result' = [op |-> "use", i |-> i]
    /\ UNCHANGED <<reqs, ref, rlist, rgen, paged, pgen, rows, api, thr>>

\* list(p) on the i-th object, a ResourceList
UsePaged(i) ==
    /\ IsPaged(res[ref[i]])
    /\ \E ans \in FewAnswers(200) :
        \E f \in {IterateAll(res[ref[i]], NewGen, <<ans>>, rows)} :
            res' = [res EXCEPT ![ref[i]] = f.p]
    /\ result' = [op |-> "use", i |-> i]
    /\ UNCHANGED <<reqs, ref, rlist, rgen, paged, pgen, rows, api, thr>>

NextHeap == Make \/ (\E i \in DOMAIN ref : UseRef(i) \/ UseList(i) \/ UsePaged(i))

SpecHeap == InitHeap /\ [][NextHeap]_vars

\* C22: a step that resolves or iterates one ResourceProxy, ResourceProxyList
\* or ResourceList leaves every other instance the caller holds as it was,
\* its cache and its flag included, whatever that instance targets.
C22_PrivateCaches ==
    [][\A i \in DOMAIN ref :
            \/ result'.op = "use" /\ result'.i = i
            \/ res'[ref[i]] = res[ref[i]]]_vars

\* two lists of the same ids: the first iterated and then indexed, the second
\* untouched
C22_Witness ==
    /\ Len(ref) >= 2
    /\ \A i \in 1..2 : IsList(res[ref[i]]) /\ res[ref[i]]._ids = DeclaredIds(PAGE_ROWS)
    /\ res[ref[1]]._is_cached /\ Len(res[ref[1]]._cache) > PAGE_ROWS
    /\ ~res[ref[2]]._is_cached /\ res[ref[2]]._cache = <<>>
    /\ result = [op |-> "use", i |-> 1]

(***************************** Resource.update, when it succeeds ***********)
\* C23: an update() that returns has issued two requests, a PATCH answered
\* 202 and then one GET answered 200, both of the URL of the Resource's id,
\* and returns the Resource made of the object the GET returned; the step
\* leaves the Resource it was called on, its fields and its flag, as it was.
C23_UpdateRefetches ==
    /\ [](result.op = "update" /\ result.exc = "none" =>
            /\ result.nreqs = 2
            /\ \A k \in 0..1 : reqs[Len(reqs) - k].who = Who("res", result.who)
            /\ reqs[Len(reqs) - 1].method = "PATCH" /\ reqs[Len(reqs) - 1].status = 202
            /\ reqs[Len(reqs)].method = "GET" /\ reqs[Len(reqs)].status = 200
            /\ reqs[Len(reqs) - 1].url = reqs[Len(reqs)].url
            /\ reqs[Len(reqs)].url
                    = StrCat(base_url, StrCat(base_path,
                                <<"widget", PyToStr(res[result.who]._id)[1], "">>))
            /\ result.val = manufacture("widget",
                                ServerObject("widget", PyToStr(res[result.who]._id)[1]))
            /\ ~res[result.who]._is_deleted)
    /\ [][result'.op = "update" /\ result'.exc = "none" =>
            \A i \in DOMAIN res : res'[i] = res[i]]_vars

\* an update() has returned a Resource, after an update() of the same
\* Resource that failed
C23_Witness ==
    /\ result.op = "update" /\ result.exc = "none"
    /\ Len(reqs) = 3 /\ reqs[1].status # 202
    /\ \A j \in DOMAIN reqs : reqs[j].who = Who("res", result.who)
    /\ Len(res) = 3

(***************************** Api.get_url, on filters *********************)
\* the values of a filter: strings, an integer, and the lists of at most
\* MaxItems strings
FilterItems == {PyStr(<<"x">>), PyStr(<<"y">>)}
FilterValues ==
    FilterItems \cup {PyInt(1)}
        \cup {PyList(l) : l \in UNION {[1..n -> FilterItems] : n \in 0..MaxItems}}

\* the filters of a call: none, one, or two under different keys
FilterSets ==
    {<<>>} \cup {<<[k |-> "a", v |-> v]>> : v \in FilterValues}
           \cup {<<[k |-> "a", v |-> v], [k |-> "tag", v |-> w]>> :
                    v \in FilterValues, w \in FilterValues}

InitUrl ==
    /\ reqs = <<>>
    /\ result = [op |-> "init"]
    /\ api = LoadedApi
    /\ thr = <<>>
    /\ ref = <<>>
    /\ rlist = Idle
    /\ rgen = <<>>
    /\ paged = Idle
    /\ pgen = <<>>
    /\ rows = <<>>
    /\ res = <<>>

\* api.get_url('widget', **kwargs): params is the list handed to urlencode
BuildUrl ==
    /\ \E kwargs \in FilterSets :
        result' = [op |-> "get_url", kwargs |-> kwargs,
                   params |-> QueryParams(kwargs),
                   url |-> get_url(PyStr(<<"widget">>), PyNone, kwargs)]
    /\ UNCHANGED <<reqs, ref, rlist, rgen, paged, pgen, rows, res, api, thr>>

NextUrlCall == BuildUrl

SpecUrl == InitUrl /\ [][NextUrlCall]_vars

\* the number of parameters the filter kv stands for
ParamCount(kv) == IF kv.v.t = "list" THEN Len(kv.v.l) ELSE 1

\* the number of parameters of the first n filters
RECURSIVE ParamsBefore(_, _)
ParamsBefore(kwargs, n) ==
    IF n = 0 THEN 0 ELSE ParamsBefore(kwargs, n - 1) + ParamCount(kwargs[n])

\* C24: a filter whose value is a list of n items gives n parameters under
\* its key, one per item in order, any other filter gives one parameter; the
\* parameters are as many as the sum over the filters, and the query string
\* is made of them.
C24_FilterParams ==
    result.op = "get_url" =>
        LET kw == result.kwargs
            ps == result.params
        IN  /\ Len(ps) = ParamsBefore(kw, Len(kw))
            /\ \A i \in DOMAIN kw : \A j \in 1..ParamCount(kw[i]) :
                    ps[ParamsBefore(kw, i - 1) + j]
                        = [k |-> kw[i].k,
                           v |-> IF kw[i].v.t = "list" THEN kw[i].v.l[j] ELSE kw[i].v]
            /\ result.url = IF kw = <<>> THEN get_url(PyStr(<<"widget">>), PyNone, <<>>)
                            ELSE StrCat(get_url(PyStr(<<"widget">>), PyNone, <<>>),
                                        <<"?" \o urlencode(ps)>>)

\* tag=y&tag=x after a scalar filter
C24_Witness ==
    /\ result.op = "get_url"
    /\ result.kwargs = <<[k |-> "a", v |-> PyInt(1)],
                         [k |-> "tag", v |-> PyList(<<PyStr(<<"y">>), PyStr(<<"x">>)>>)]>>
    /\ Len(result.params) = 3
    /\ result.url = StrCat(ServiceUrl, <<"widget", "?a=1&tag=y&tag=x">>)

(***************************** ResourceProxyList, its flag *****************)
\* the declared ids that have an entry in the dict of l, under the key as a
\* string or as the integer get_many keys it with
Resolved(l) ==
    {i \in DOMAIN l._ids :
        \E j \in DOMAIN l._cache : PyToStr(l._cache[j].k) = PyToStr(l._ids[i])}

\* C25 as stated: the flag of a ResourceProxyList is set only if every
\* declared id has an entry in its dict.
C25_FlagMeansResolved ==
    rlist._is_cached => Resolved(rlist) = DOMAIN rlist._ids

(***************************** ResourceList, its flag **********************)
\* an iteration has received a page whose meta has no next cursor
LastPageReceived ==
    \E i \in Gens : /\ pgen[i].mode = "fetch"
                    /\ pgen[i].st \in {"fetch", "done"}
                    /\ ~Truthy(pgen[i].next)

\* C26 as stated: the flag of a ResourceList is set only after a page without
\* a next cursor has been received.
C26_CompleteAfterLastPage ==
    (paged # Idle /\ paged._is_cached) => LastPageReceived

\* C27: every step leaves the cache of the ResourceList as it was or appends
\* to its end, so the cache before the step is a prefix of the cache after
\* it; and no step clears a flag that is set.
C27_CacheOnlyGrows ==
    [][paged # Idle =>
            /\ paged' # Idle
            /\ Len(paged'._cache) >= Len(paged._cache)
            /\ SubSeq(paged'._cache, 1, Len(paged._cache)) = paged._cache
            /\ paged._is_cached => paged'._is_cached]_vars

\* the cache has grown past two pages under an iteration that is still
\* fetching, while a second iteration replays it
C27_Witness ==
    /\ paged # Idle /\ paged._is_cached
    /\ Len(paged._cache) > 2 * PageLimit
    /\ pgen[1].mode = "fetch" /\ pgen[1].st = "fetch"
    /\ pgen[2].mode = "replay" /\ pgen[2].idx > 0

(***************************** ResourceProxyList, both paths ***************)
\* the list was iterated to its end and every declared id has its entry
FullyResolved(l) == l._is_cached /\ Resolved(l) = DOMAIN l._ids

\* C28 as stated: once an iteration has resolved the whole list, rlist[id]
\* with a declared id issues no request and returns the value the iteration
\* stored for that id.
C28_SharedCache ==
    (/\ result.op = "index"
     /\ FullyResolved(result.before)
     /\ \E i \in DOMAIN rlist._ids : rlist._ids[i] = PyStr(PyToStr(result.item))) =>
        /\ Len(reqs) = result.began
        /\ result.exc = "none"
        /\ \E j \in DOMAIN result.before._cache :
                /\ PyToStr(result.before._cache[j].k) = PyToStr(result.item)
                /\ result.before._cache[j].v = result.val
        /\ rlist = result.before

\* C29 as stated: an iteration of a fully resolved list of N declared ids
\* yields N values, one Resource per declared id.
C29_ReplayYieldsDeclared ==
    (/\ result.op = "iterate" /\ result.exc = "none"
     /\ FullyResolved(result.before)) =>
        /\ Len(result.val) = Len(rlist._ids)
        /\ Len(reqs) = result.began
        /\ \A i \in DOMAIN rlist._ids :
                Cardinality({j \in DOMAIN result.val :
                                /\ result.val[j].t = "Resource"
                                /\ result.val[j]._id = rlist._ids[i]}) = 1

(***************************** EndpointProxy.filter, and count *************)
\* C30: the filter() that returns a ResourceList has issued one request, the
\* GET of the listing with the filters, answered 200; the list it returns
\* has an empty cache and a clear flag, and its count() is the total_count of
\* that answer; no later step changes the meta or what count() returns,
\* whatever the pages fetched afterwards say.
C30_FilterSeedsCount ==
    [][/\ (paged = Idle /\ paged' # Idle) =>
            /\ Len(reqs') = Len(reqs) + 1
            /\ reqs'[Len(reqs')].method = "GET" /\ reqs'[Len(reqs')].status = 200
            /\ reqs'[Len(reqs')].url
                    = get_url(PyStr(<<"widget">>), PyNone, paged'._filters)
            /\ paged'._cache = <<>> /\ ~paged'._is_cached
            /\ count(paged') = Len(rows)
       /\ paged # Idle =>
            /\ paged' # Idle
            /\ paged'._meta = paged._meta
            /\ count(paged') = count(paged)]_vars

\* an iteration has run to its end over a listing that had grown since the
\* first response: its later pages counted more rows than count() returns
C30_Witness ==
    /\ paged # Idle /\ count(paged) < Len(rows)
    /\ Len(paged._cache) = Len(rows)
    /\ pgen[1].st = "done" /\ Cardinality(RequestsOf(Who("pgen", 1))) > 1

(***************************** Resource, its identity **********************)
\* res holds the Resources made; ref[i] is the resource_uri of the object
\* res[i] was made of.
InitIdent ==
    /\ reqs = <<>>
    /\ result = [op |-> "init"]
    /\ api = LoadedApi
    /\ thr = <<>>
    /\ ref = <<>>
    /\ rlist = Idle
    /\ rgen = <<>>
    /\ paged = Idle
    /\ pgen = <<>>
    /\ rows = <<>>
    /\ res = <<>>

\* Resource.manufacture(endpoint, data): the object an endpoint is answered
\* with names itself by a URL of the endpoint's type or of another type
IdentMake ==
    /\ Len(res) < NumInst
    /\ \E endpoint \in {"widget", "user"}, type \in {"widget", "user"}, id \in RefIds :
        \E obj \in {[ServerObject(type, id) EXCEPT !.fields = [name |-> PyStr(<<"x">>)]]} :
            /\ res' = Append(res, manufacture(endpoint, obj))
            /\ ref' = Append(ref, obj.resource_uri)
            /\ result' = [op |-> "make", endpoint |-> endpoint, type |-> type]
    /\ UNCHANGED <<reqs, rlist, rgen, paged, pgen, rows, api, thr>>

\* res[i].update(...)
IdentUpdate(i) ==
    \E a1 \in FewAnswers(202), a2 \in FewAnswers(200) :
        \E u \in {ResourceUpdate(res[i], a1, a2)} :
            /\ Len(reqs) + Len(u.reqs) <= MaxResReqs
            /\ reqs' = reqs \o Logged(u.reqs, Who("res", i))
            /\ result' = [op |-> "update", who |-> i, exc |-> u.exc, val |-> u.val]
            /\ UNCHANGED <<ref, rlist, rgen, paged, pgen, rows, res, api, thr>>

\* res[i].delete()
IdentDelete(i) ==
    \E ans \in FewAnswers(204) :
        \E d \in {ResourceDelete(res[i], ans)} :
            /\ Len(reqs) + Len(d.reqs) <= MaxResReqs
            /\ reqs' = reqs \o Logged(d.reqs, Who("res", i))
            /\ res' = [res EXCEPT ![i] = d.r]
            /\ result' = [op |-> "delete", who |-> i, exc |-> d.exc, val |-> PyNone]
            /\ UNCHANGED <<ref, rlist, rgen, paged, pgen, rows, api, thr>>

NextIdent == IdentMake \/ (\E i \in DOMAIN res : IdentUpdate(i) \/ IdentDelete(i))

SpecIdent == InitIdent /\ [][NextIdent]_vars

\* C31 as stated: a Resource has the id of its self URL, and every PATCH and
\* DELETE it issues goes to its self URL, whatever endpoint it was made
\* through.
C31_OwnUrl ==
    \A i \in DOMAIN res :
        /\ res[i]._id = PyStr(<<get_resource_ident(ref[i])[2]>>)
        /\ \A j \in RequestsOf(Who("res", i)) :
                reqs[j].method \in {"PATCH", "DELETE"} =>
                    reqs[j].url = StrCat(base_url, ref[i])

(***************************** Resource.manufacture, scalar fields *********)
\* the value is a string that starts with the base path of the service
UnderBasePath(v) == v.t = "str" /\ StartsWith(v.s, base_path)

\* api.widget.get('1') was answered 200 with an object whose list field holds
\* resource URLs only
ScalarCase ==
    /\ result.op = "materialize" /\ reqs[1].status = 200
    /\ \A k \in DOMAIN result.obj.fields["tags"].l :
            /\ UnderBasePath(result.obj.fields["tags"].l[k])
            /\ get_resource_ident(result.obj.fields["tags"].l[k].s)[1] \in Registry(api)

\* the fields of the Resource made are as the claim says: a ResourceProxy of
\* the type and id of the URL for a string under the base path, the value
\* itself for any other scalar
ScalarsReplaced ==
    /\ result.exc = "none"
    /\ \A attr \in {"id", "owner"} :
        LET v == result.obj.fields[attr]
        IN  result.val._data[attr]
                = IF UnderBasePath(v)
                  THEN NewResourceProxy(get_resource_ident(v.s)[1],
                                        PyStr(<<get_resource_ident(v.s)[2]>>))
                  ELSE v

\* C32 as stated: manufacture replaces a scalar field by a ResourceProxy of the
\* type and id parsed from its value exactly when the value is a string under
\* the base path, and keeps every other scalar.
C32_RefExactlyForUrls == ScalarCase => ScalarsReplaced

\* C32 amended: it does so when the type parsed from the value is an endpoint
\* of the registry; for a string under the base path whose type is not in the
\* registry, manufacture raises AttributeError and makes no Resource.
C32_RefForRegisteredUrls ==
    ScalarCase =>
        IF /\ UnderBasePath(result.obj.fields["owner"])
           /\ get_resource_ident(result.obj.fields["owner"].s)[1] \notin Registry(api)
        THEN result.exc = "AttributeError" /\ result.val = PyNone /\ res = <<>>
        ELSE ScalarsReplaced

\* the owner of the Resource made is the placeholder of user 3
C32_Witness ==
    /\ ScalarCase /\ result.exc = "none"
    /\ result.obj.fields["owner"] = UriOf("user", "3")
    /\ result.val._data["owner"] = NewResourceProxy("user", PyStr(<<"3">>))
    /\ result.val._data["id"] = PyInt(1)

(***************************** ResourceList, two iterations in turn ********)
\* One caller holds two iterators of paged.  It advances the first alone for
\* a while, then the two in turn, one next() each, the second first; an
\* iterator that has ended or raised is passed over.
\* thr: whose turn it is, whether the second has begun, and whether the first
\* had a next cursor to follow when the second began
InitTurns ==
    /\ reqs = <<>>
    /\ result = [op |-> "init"]
    /\ api = LoadedApi
    /\ thr = [turn |-> 1, alt |-> FALSE, partial |-> FALSE]
    /\ ref = <<>>
    /\ rlist = Idle
    /\ rgen = <<>>
    /\ paged = Idle
    /\ pgen = [i \in Gens |-> NewGen]
    /\ rows \in {UpTo(n) : n \in 0..MaxRows}
    /\ res = <<>>

\* whether the iterator g can be advanced
Running(g) == g.st \notin {"done", "raised"}

\* next() on the iterator whose turn it is
TurnNext(i) ==
    /\ paged # Idle
    /\ thr.turn = i
    /\ Running(pgen[i])
    /\ \E ans \in FewAnswers(200), go \in BOOLEAN :
        \E r \in {PagedAdvance(paged, pgen[i], ans, rows)} :
            /\ Len(reqs) + Len(r.reqs) <= MaxReqs
            /\ paged' = r.p
            /\ pgen' = [pgen EXCEPT ![i] = r.g]
            /\ reqs' = reqs \o Logged(r.reqs, Who("pgen", i))
            /\ result' = [op |-> "next", who |-> i, ev |-> r.ev]
            /\ thr' = IF i = 1
                      THEN [thr EXCEPT !.turn = IF (thr.alt \/ go) /\ Running(pgen[2])
                                                THEN 2
                                                ELSE IF Running(r.g) THEN 1 ELSE 2]
                      ELSE [turn |-> IF Running(pgen[1]) THEN 1 ELSE 2,
                            alt |-> TRUE,
                            partial |-> IF thr.alt THEN thr.partial
                                        ELSE /\ pgen[1].st = "fetch"
                                             /\ Truthy(pgen[1].next)]
    /\ UNCHANGED <<ref, rlist, rgen, rows, res, api>>

NextTurns == PagedFilter \/ (\E i \in Gens : TurnNext(i))

SpecTurns == InitTurns /\ [][NextTurns]_vars

\* C33: when the second iterator was begun while the first still had pages to
\* fetch and the two were advanced in turn, the second does not end before
\* the first unless the first raised, and once both have ended each has
\* yielded every item of the listing once, in page order.
C33_BothYieldAll ==
    thr.partial =>
        /\ (pgen[2].st = "done" /\ pgen[1].st # "raised") => pgen[1].st = "done"
        /\ (pgen[1].st = "done" /\ pgen[2].st = "done") =>
                /\ pgen[1].out = FullListing
                /\ pgen[2].out = FullListing

\* both iterators have ended over a listing of three pages, the second one
\* begun while the first had fetched the first page only
C33_Witness ==
    /\ thr.partial
    /\ pgen[1].st = "done" /\ pgen[1].mode = "fetch"
    /\ pgen[2].st = "done" /\ pgen[2].mode = "replay"
    /\ Len(rows) > 2 * PageLimit
    /\ Len(pgen[2].out) = Len(rows)

(***************************** ResourceProxy, failed fetches ***************)
\* the Resource the server's object of the ref x materializes to
Materialized(x) ==
    manufacture(x._endpoint, ServerObject(x._endpoint, x._id.s[1]))

\* C34: an access whose fetch fails leaves the slot of the ref as it was,
\* empty; the next access to that ref issues a request again; and a slot that
\* is written holds the Resource materialized from a request of that ref
\* answered with 200.
C34_FailedFetchNotCached ==
    /\ [](\A r \in Refs :
            \/ ref[r]._resource = PyNone
            \/ /\ ref[r]._resource = Materialized(ref[r])
               /\ \E i \in RequestsOf(Who("ref", r)) : reqs[i].status = 200)
    /\ [][(result'.op = "ref" /\ result'.exc # "none") =>
                /\ ref' = ref
                /\ ref[result'.who]._resource = PyNone
                /\ result'.fetched]_vars
    /\ [][(/\ result.op = "ref" /\ result.exc = "BadHttpStatus"
           /\ result'.op = "ref" /\ result'.who = result.who) =>
                /\ result'.fetched
                /\ Len(reqs') = Len(reqs) + 1]_vars

\* the second access to a ref whose first access failed with BadHttpStatus
\* has fetched again, this time with success
C34_Witness ==
    /\ result.op = "ref" /\ result.exc = "none" /\ result.fetched
    /\ ref[result.who]._resource # PyNone
    /\ LET mine == RequestsOf(Who("ref", result.who))
       IN  /\ Cardinality(mine) = 2
           /\ \E i \in mine : reqs[i].status # 200

(***************************** Resource, the deleted flag ******************)
\* the instances other than i that have the (type, id) of res[i]
Twins(i) ==
    {j \in DOMAIN res \ {i} :
        res[j].endpoint = res[i].endpoint /\ res[j]._id = res[i]._id}

\* C35: the flag of an instance is set only by a DELETE of that instance
\* answered with 204; a delete() changes no other instance; the instance an
\* update() returns has the flag false; and update() or delete() on an
\* instance whose flag is false issues a request.
C35_FlagPerInstance ==
    /\ [](\A j \in DOMAIN res :
            res[j]._is_deleted =>
                \E i \in RequestsOf(Who("res", j)) :
                    reqs[i].method = "DELETE" /\ reqs[i].status = 204)
    /\ []((result.op \in {"update", "delete"} /\ ~result.wasDeleted) =>
                result.nreqs >= 1)
    /\ [][(result'.op = "delete") =>
                \A j \in DOMAIN res \ {result'.who} : res'[j] = res[j]]_vars
    /\ [][(result'.op = "update") =>
                /\ \A j \in DOMAIN res : res'[j] = res[j]
                /\ \A j \in DOMAIN res' \ DOMAIN res : ~res'[j]._is_deleted]_vars

\* an instance has just been deleted while the instance an earlier update()
\* of the same (type, id) returned keeps its flag false
C35_Witness ==
    /\ result.op = "delete" /\ result.exc = "none"
    /\ res[result.who]._is_deleted
    /\ \E j \in Twins(result.who) :
            /\ j \notin 1..2
            /\ ~res[j]._is_deleted

(***************************** ResourceProxyList, the keys of the map ******)
\* C36 as stated: every key of the map of rlist is one of its declared ids,
\* and the map has no more entries than there are distinct declared ids.
C36_KeysAreDeclared ==
    /\ \A j \in DOMAIN rlist._cache :
            \E i \in DOMAIN rlist._ids : rlist._ids[i] = rlist._cache[j].k
    /\ Len(rlist._cache) <= Cardinality({rlist._ids[i] : i \in DOMAIN rlist._ids})

(***************************** ResourceList, the depth of the generators ***)
\* _fetch hands the rest of the listing to _iterate_pages(next), which hands
\* its rest to another _iterate_pages(new_next), and so on: every page adds a
\* generator that stays suspended inside the loop of the one before it, and a
\* next() of the outermost runs through all of them.  depth is the number of
\* nested generator frames of one iteration.
NewDeepGen == NewGen @@ [depth |-> 0]

OkAnswer == [status |-> 200, body |-> "ok"]

\* One next() on the iterator of a ResourceList that was not iterated before,
\* every request answered with 200.  The frames of __iter__ and _fetch are
\* the first two; the body of each _iterate_pages, that of the last call with
\* an empty cursor included, runs in a frame of its own, and the interpreter
\* raises RuntimeError in place of a frame beyond its limit.
\* (PagedAdvance is this step for the listings whose pages stay under the
\* limit.)
RECURSIVE DeepAdvance(_, _, _)
DeepAdvance(p, g, rws) ==
    LET loaded(l) ==
            IF l.ev.k = "raise" THEN l
            ELSE LET rest == DeepAdvance(l.p, l.g, rws)
                 IN  [rest EXCEPT !.reqs = l.reqs \o @]
    IN  CASE g.st = "new" ->
                loaded(LoadPage(SetIsCached(p),
                                [g EXCEPT !.mode = "fetch", !.depth = 2],
                                get_url(PyStr(<<p.endpoint>>), PyNone, p._filters),
                                OkAnswer, rws))
          [] g.st = "fetch" /\ g.pending # <<>> ->
                [p |-> p,
                 g |-> [g EXCEPT !.pending = Tail(@), !.out = Append(@, Head(g.pending))],
                 reqs |-> <<>>, ev |-> [k |-> "yield", item |-> Head(g.pending)]]
          [] g.st = "fetch" /\ g.pending = <<>> /\ g.depth + 1 > RecursionLimit ->
                [p |-> p, g |-> [g EXCEPT !.st = "raised"], reqs |-> <<>>,
                 ev |-> [k |-> "raise", exc |-> "RuntimeError"]]
          [] g.st = "fetch" /\ g.pending = <<>> /\ g.depth + 1 <= RecursionLimit
                           /\ ~Truthy(g.next) ->
                [p |-> p, g |-> [g EXCEPT !.st = "done", !.depth = @ + 1],
                 reqs |-> <<>>, ev |-> [k |-> "stop"]]
          [] g.st = "fetch" /\ g.pending = <<>> /\ g.depth + 1 <= RecursionLimit
                           /\ Truthy(g.next) ->
                loaded(LoadPage(p, [g EXCEPT !.depth = @ + 1],
                                StrCat(base_url, g.next.s), OkAnswer, rws))
          [] OTHER ->
                [p |-> p, g |-> g, reqs |-> <<>>, ev |-> [k |-> "stop"]]

InitPages ==
    /\ reqs = <<>>
    /\ result = [op |-> "init"]
    /\ api = LoadedApi
    /\ thr = <<>>
    /\ ref = <<>>
    /\ rlist = Idle
    /\ rgen = <<>>
    /\ paged = Idle
    /\ pgen = <<NewDeepGen>>
    /\ rows \in {UpTo(n) : n \in 0..MaxRows}
    /\ res = <<>>

\* one turn of the loop of list(paged): next() on its iterator
PageStep ==
    /\ paged # Idle
    /\ Running(pgen[1])
    /\ \E r \in {DeepAdvance(paged, pgen[1], rows)} :
            /\ paged' = r.p
            /\ pgen' = <<r.g>>
            /\ reqs' = reqs \o Logged(r.reqs, Who("pgen", 1))
            /\ result' = [op |-> "next", who |-> 1, ev |-> r.ev]
    /\ UNCHANGED <<ref, rlist, rgen, rows, res, api, thr>>

NextPages == PagedFilter \/ PageStep

\* the loop of list(paged) goes on while its iterator can be advanced
SpecPages == InitPages /\ [][NextPages]_vars /\ WF_vars(PageStep)

\* the number of pages of the listing: one, empty, when there are no rows
PageCount == IF rows = <<>> THEN 1 ELSE (Len(rows) + PageLimit - 1) \div PageLimit

\* C37 as stated: with every page request answered 200 and a listing of
\* PageCount pages, the iteration of a ResourceList ends normally, having
\* issued the first page's request and followed PageCount - 1 cursors, and
\* the list then has its flag set and the whole listing in its cache.  Under
\* SpecPages the iterator is advanced for as long as it can be and every run
\* is finite, so the iteration does stop: the formula says how it has stopped.
C37_IterateFinishes ==
    (paged # Idle /\ ~Running(pgen[1])) =>
        /\ pgen[1].st = "done"
        /\ Cardinality(RequestsOf(Who("pgen", 1))) - 1 = PageCount - 1
        /\ paged._is_cached
        /\ paged._cache = FullListing
====
